---- MODULE Spec2Model ----
(***************************************************************************)
(* Model of the mention/hashtag core of wink-wysiwyg:                      *)
(*   - the token scan of EditorImpl.onUpdate (the /@.../g and /#.../g      *)
(*     regular expressions and the exec loop),                             *)
(*   - the suggestion state of the useMentions / useHashtags hooks,        *)
(*   - the paste listeners, the plugin manager and plugin context, and the *)
(*     server-safe WInkEditor wrapper.                                     *)
(* Texts are sequences of one-character strings.  Offsets are 0-based as   *)
(* in the source; sequence indices are 1-based, so text[i] of the source   *)
(* is text[i + 1] here.                                                    *)
(***************************************************************************)
EXTENDS Integers, Sequences, FiniteSets, TLC

\* ------------------------------------------------------------------------
\* State
\* ------------------------------------------------------------------------
\* The token scan of onUpdate, one regex.exec call at a time
VARIABLES
  sText,       \* the text being scanned (parent.textContent)
  sKind,       \* the kind whose regex is running
  sLastIndex,  \* regex.lastIndex
  sOut,        \* the tokens produced so far by this run
  sDone,       \* exec has returned null: the loop is over
  sPrev,       \* the tokens of the previous completed run
  sRescan      \* this run scans the same text as the previous one

scanVars == <<sText, sKind, sLastIndex, sOut, sDone, sPrev, sRescan>>

\* One suggestion hook (useMentions and useHashtags have the same code)
VARIABLES
  config,              \* the hook's config argument
  mentionState,        \* mentionState / hashtagState
  timers,              \* the pending setTimeout callbacks, oldest first
  debounceRef,         \* index in timers of debounceRef.current, 0: null or
                       \* a timer that has fired or was cleared
  abortControllerRef,  \* index in fetches of abortControllerRef.current, 0: null
  fetches,             \* one entry per call of config.fetchSuggestions
  mounted,             \* the component that owns the hook is mounted
  watch,               \* the fetches in flight at a hide or an unmount are
                       \* being recorded (hid, orphan)
  scenario             \* progress of the run "a", "ab", "abc", timer fires

hookVars ==
  <<config, mentionState, timers, debounceRef, abortControllerRef, fetches,
    mounted, watch, scenario>>

\* The commit of a suggestion
VARIABLES
  editor,      \* the hook's editor argument: "null", "ok", or "rejects" for
               \* an editor whose insertContent fails
  hookKind,    \* the hook is useMentions ("mention") or useHashtags
  committed    \* what the last commit attempt for the token being typed did
               \* to the text before the caret; NoCommit when there was none

commitVars == <<editor, hookKind, committed>>

\* The editor: the caret's paragraph and the running onUpdate handlers
VARIABLES
  enabled,     \* enableMentions / enableHashtags, by kind
  schemaMarks, \* by kind, the mark type is in editor.schema.marks
  engineEq,    \* the engine skips 'update' when a transaction leaves the
               \* document equal to the one before it
  para,        \* the inline content of the caret's paragraph
  marks,       \* by kind, the mark attribute at each position, <<>>: none
  stack,       \* the running onUpdate calls, innermost last: what each
               \* does next
  reconciled,  \* by kind, onUpdate has reconciled the kind since the last
               \* change of the paragraph
  otherPara,   \* the inline content of the paragraph after the caret's
  otherMarks   \* by kind, the mark attribute at each of its positions

docVars ==
  <<enabled, schemaMarks, engineEq, para, marks, stack, reconciled,
    otherPara, otherMarks>>

\* The caret and what reads the text before it: the suggestion overlay of
\* the editor and the context functions of the hooks
VARIABLES
  cBefore,     \* the inline nodes of the caret's paragraph before the caret
  cCut,        \* how many of them lie before the last change of marks: the
               \* text after it is one text node up to a hard break
  keyDown,     \* a key is down in the editor: its keyup is still to come
  oOpen,       \* open of MentionSuggestions
  oQuery,      \* query of MentionSuggestions
  oFresh,      \* the overlay's handler has run since the document last
               \* changed
  cHook        \* what the hook's context functions returned when they were
               \* last called, NoCall once the document has changed

ctxVars == <<cBefore, cCut, keyDown, oOpen, oQuery, oFresh, cHook>>

\* A paste event on the editor element and the listeners that handle it
VARIABLES
  imagesEnabled,  \* the enableImages prop of the editor
  hasUpload,      \* an onImageUpload prop was given
  pasted,         \* per paste event, the number of image items on its
                  \* clipboard; 0 until the event has happened
  runs,           \* per paste event and listener, the image item whose
                  \* upload the listener awaits; 0 when it awaits none
  imageNodes      \* per clipboard image, the image nodes inserted for it

pasteVars == <<imagesEnabled, hasUpload, pasted, runs, imageNodes>>

\* A plugin manager of createPluginManager
VARIABLES
  plugins,         \* the plugins map: per id the stored plugin, or NoPlugin
  enabledPlugins,  \* the enabledPlugins set
  eventLog,        \* the lifecycle events fired so far, oldest first
  warning          \* what the last call passed to console.warn, "none" when
                   \* it did not warn

pluginVars == <<plugins, enabledPlugins, eventLog, warning>>

\* The event target of a plugin context
VARIABLES
  listeners,   \* the listeners registered on events, in registration order
  offed,       \* the (event, handler) pairs whose last on was followed by
               \* an off
  invoked      \* the handler calls made by the last emit, in order

pctxVars == <<listeners, offed, invoked>>

\* The WInkEditor wrapper component
VARIABLES
  wEnv,               \* "server" or "client": where the wrapper renders
  noSsr,              \* the WInkNoSSR around the wrapper: "none" without
                      \* one, else what it renders, "fallback" or "children"
  immediatelyRender,  \* the immediatelyRender prop
  hydrationStrategy,  \* the hydrationStrategy prop
  isClient,           \* the isClient state
  shouldInit,         \* the shouldInit state
  wPhase,             \* "absent" (not rendered yet), "rendered", "mounted"
                      \* (the mount effect has run) or "unmounted"
  scheduled,          \* the callback the effect has scheduled: "none",
                      \* "timeout" or "rAF"
  implRendered        \* EditorImpl has been rendered

wrapVars ==
  <<wEnv, noSsr, immediatelyRender, hydrationStrategy, isClient, shouldInit, wPhase,
    scheduled, implRendered>>

coreVars == <<scanVars, hookVars, commitVars, docVars, ctxVars>>

extVars == <<pasteVars, pluginVars, pctxVars, wrapVars>>

vars == <<coreVars, extVars>>

\* ------------------------------------------------------------------------
\* Bounds
\* ------------------------------------------------------------------------
MaxLen == 4

MaxTokens == 3

\* ------------------------------------------------------------------------
\* Characters
\* ------------------------------------------------------------------------
\* The characters the texts of the model are built from: both triggers, a
\* letter, the dot, the hyphen and the space.
Alphabet == {"@", "#", "a", ".", "-", " "}

\* The letters of the model: "a" and those of the example texts
Letters == {"a", "b", "c", "e", "h", "i", "l", "o", "r", "u", "w", "y"}

\* [A-Za-z0-9_.-] restricted to the characters of the model
IdChar == Letters \cup {".", "-"}

\* [A-Za-z0-9_-] restricted to the characters of the model
EndChar == Letters \cup {"-"}

Kinds == {"mention", "hashtag"}

\* Both regexes with the trigger of the mentions.
TriggerSame(kind) == "@"

\* "@" in the mention regex, "#" in the hashtag regex
Trigger(kind) == IF kind = "mention" THEN "@" ELSE "#"

RECURSIVE SeqsUpTo(_, _)
SeqsUpTo(S, n) ==
  IF n = 0 THEN {<<>>}
  ELSE LET shorter == SeqsUpTo(S, n - 1)
       IN shorter \cup {Append(s, c) : s \in {t \in shorter : Len(t) = n - 1}, c \in S}

\* "hello @alice how are you"
TextHelloAlice ==
  <<"h", "e", "l", "l", "o", " ", "@", "a", "l", "i", "c", "e", " ",
    "h", "o", "w", " ", "a", "r", "e", " ", "y", "o", "u">>

\* "@bob @carol"
TextBobCarol == <<"@", "b", "o", "b", " ", "@", "c", "a", "r", "o", "l">>

\* "@@bob"
TextAtAtBob == <<"@", "@", "b", "o", "b">>

\* The texts that are scanned: every text over Alphabet up to MaxLen and
\* the example texts
Texts == SeqsUpTo(Alphabet, MaxLen) \cup {TextHelloAlice, TextBobCarol, TextAtAtBob}

\* ------------------------------------------------------------------------
\* The regular expression  X([A-Za-z0-9_.-]*[A-Za-z0-9_-])(?![A-Za-z0-9_-])
\* ------------------------------------------------------------------------
NoMatch == [index |-> -1, length |-> 0]

\* The pattern with its last identifier character optional (k = -1: the
\* trigger alone).
StarCountsLastOptional(text, i, trig, starClass, lastClass, lookClass) ==
  { k \in (-1)..Len(text) :
      /\ i + 1 <= Len(text)
      /\ text[i + 1] = trig
      /\ i + k + 2 <= Len(text)
      /\ \A j \in 1..(k + 1) : text[i + 1 + j] \in starClass
      /\ (i + k + 3 <= Len(text) => text[i + k + 3] \notin lookClass) }

\* The star counts k for which the pattern matches with the trigger at
\* 0-based offset i: the trigger, k characters of starClass, one character of
\* lastClass, and then no character of lookClass.
StarCounts(text, i, trig, starClass, lastClass, lookClass) ==
  { k \in 0..Len(text) :
      /\ i + 1 <= Len(text)
      /\ text[i + 1] = trig
      /\ i + k + 2 <= Len(text)
      /\ \A j \in 1..k : text[i + 1 + j] \in starClass
      /\ text[i + k + 2] \in lastClass
      /\ (i + k + 3 <= Len(text) => text[i + k + 3] \notin lookClass) }

SetMax(S) == CHOOSE x \in S : \A y \in S : y <= x

SetMin(S) == CHOOSE x \in S : \A y \in S : x <= y

\* One call of regex.exec(text) with the given lastIndex: the leftmost offset
\* at or after lastIndex where the pattern matches, with the greedy (longest)
\* star there; NoMatch when there is none.
RegexExecWith(text, lastIndex, trig, starClass, lastClass, lookClass) ==
  LET starts == { i \in lastIndex..(Len(text) - 1) :
                    StarCounts(text, i, trig, starClass, lastClass, lookClass) # {} }
  IN IF starts = {} THEN NoMatch
     ELSE LET i == SetMin(starts)
              k == SetMax(StarCounts(text, i, trig, starClass, lastClass, lookClass))
          IN [index |-> i, length |-> k + 2]

\* The regex with the trigger character allowed inside the identifier.
RegexExecTriggerInClass(text, lastIndex, trig) ==
  RegexExecWith(text, lastIndex, trig, IdChar \cup {trig}, EndChar, EndChar)

\* The regex with a trailing dot allowed in the identifier.
RegexExecDotEnd(text, lastIndex, trig) ==
  RegexExecWith(text, lastIndex, trig, IdChar, IdChar, EndChar)

RegexExec(text, lastIndex, trig) ==
  RegexExecWith(text, lastIndex, trig, IdChar, EndChar, EndChar)

\* A regex whose lastIndex stays at the start of the match.
LastIndexStuck(m) == m.index

\* lastIndex after a successful exec of a /g regex: the end of the match
LastIndexAfter(m) == m.index + m.length

\* The token with its end one position too far.
MkTokenEndOff(text, m) ==
  [start |-> m.index,
   end |-> m.index + m.length + 1,
   identifier |-> SubSeq(text, m.index + 2, m.index + m.length)]

\* from = startPos + match.index, to = from + match[0].length, match[1];
\* offsets relative to startPos
MkToken(text, m) ==
  [start |-> m.index,
   end |-> m.index + m.length,
   identifier |-> SubSeq(text, m.index + 2, m.index + m.length)]

\* The whole exec loop of one handler run, from lastIndex
RECURSIVE ScanFrom(_, _, _)
ScanFrom(text, lastIndex, trig) ==
  LET m == RegexExec(text, lastIndex, trig)
  IN IF m = NoMatch THEN <<>>
     ELSE <<MkToken(text, m)>> \o ScanFrom(text, LastIndexAfter(m), trig)

Scan(text, kind) == ScanFrom(text, 0, Trigger(kind))

\* ------------------------------------------------------------------------
\* The scan, one regex.exec call at a time
\* ------------------------------------------------------------------------
ScanInit ==
  /\ sText \in Texts
  /\ sKind \in Kinds
  /\ sLastIndex = 0
  /\ sOut = <<>>
  /\ sDone = FALSE
  /\ sPrev = <<>>
  /\ sRescan = FALSE

\* The handler runs again on the same text: a new regex literal (lastIndex 0)
ScanStart ==
  /\ sDone
  /\ sLastIndex' = 0
  /\ sOut' = <<>>
  /\ sDone' = FALSE
  /\ sPrev' = sOut
  /\ sRescan' = TRUE
  /\ UNCHANGED <<sText, sKind>>
  /\ UNCHANGED <<hookVars, commitVars, docVars, ctxVars, extVars>>

\* while ((match = regex.exec(text)) !== null) { ... }
ScanExec ==
  /\ ~sDone
  /\ Len(sOut) < MaxTokens
  /\ LET m == RegexExec(sText, sLastIndex, Trigger(sKind))
     IN IF m = NoMatch
        THEN /\ sDone' = TRUE
             /\ sLastIndex' = 0
             /\ sOut' = sOut
        ELSE /\ sDone' = FALSE
             /\ sLastIndex' = LastIndexAfter(m)
             /\ sOut' = Append(sOut, MkToken(sText, m))
  /\ UNCHANGED <<sText, sKind, sPrev, sRescan>>
  /\ UNCHANGED <<hookVars, commitVars, docVars, ctxVars, extVars>>

ScanNext ==
  \/ ScanStart
  \/ ScanExec

\* No scan is running
ScanIdle ==
  /\ sText = <<>>
  /\ sKind = "mention"
  /\ sLastIndex = 0
  /\ sOut = <<>>
  /\ sDone = TRUE
  /\ sPrev = <<>>
  /\ sRescan = FALSE

\* ------------------------------------------------------------------------
\* Claims about the scan
\* ------------------------------------------------------------------------
Last(s) == s[Len(s)]

\* The character at 0-based offset i of the text, "" past its end
CharAt(text, i) == IF i + 1 <= Len(text) THEN text[i + 1] ELSE ""

\* The 0-based offset one past the run of identifier characters that starts
\* right after the trigger of token t
RunEnd(text, t) ==
  SetMin({ j \in (t.start + 1)..Len(text) : CharAt(text, j) \notin IdChar })

\* C9 as stated: every token's identifier is one or more characters of
\* [A-Za-z0-9_.-], ends neither in '.' nor in '-', and the character right
\* after the token is not an identifier character.
C9_IdentifierGrammarAsClaimed ==
  \A n \in 1..Len(sOut) :
    LET t == sOut[n]
    IN /\ Len(t.identifier) >= 1
       /\ \A j \in 1..Len(t.identifier) : t.identifier[j] \in IdChar
       /\ Last(t.identifier) \notin {".", "-"}
       /\ CharAt(sText, t.end) \notin IdChar

\* C9 amended: every token's identifier is one or more characters of
\* [A-Za-z0-9_.-] whose last character is one of [A-Za-z0-9_-] (never '.',
\* possibly '-'); the character right after the token is not one of
\* [A-Za-z0-9_-]; and the token is the run of identifier characters after the
\* trigger without its trailing dots.
C9_IdentifierGrammar ==
  \A n \in 1..Len(sOut) :
    LET t == sOut[n]
    IN /\ Len(t.identifier) >= 1
       /\ t.identifier = SubSeq(sText, t.start + 2, t.end)
       /\ CharAt(sText, t.start) = Trigger(sKind)
       /\ \A j \in 1..Len(t.identifier) : t.identifier[j] \in IdChar
       /\ Last(t.identifier) \in EndChar
       /\ CharAt(sText, t.end) \notin EndChar
       /\ \A j \in t.end..(RunEnd(sText, t) - 1) : CharAt(sText, j) = "."

\* A finished scan with a token that ends in '-' and is followed by '.'
C9_Witness ==
  /\ sDone
  /\ \E n \in 1..Len(sOut) :
       /\ Last(sOut[n].identifier) = "-"
       /\ CharAt(sText, sOut[n].end) = "."

\* C10: the tokens of a scan are sorted by start ascending, their half-open
\* ranges are pairwise disjoint, and a second scan of the same text by the
\* same regex yields the same sequence.
C10_ScanSortedDisjointStable ==
  /\ \A i \in 1..Len(sOut) : \A j \in 1..Len(sOut) :
       i < j => /\ sOut[i].start < sOut[j].start
                /\ sOut[i].end <= sOut[j].start
  /\ (sDone /\ sRescan) => sOut = sPrev

\* A second scan of a text with two tokens has finished
C10_Witness == sDone /\ sRescan /\ Len(sOut) = 2

IsPrefix(s, t) == Len(s) <= Len(t) /\ s = SubSeq(t, 1, Len(s))

\* The tokens a scan of sText must produce, for the example texts
ExampleScanned(text, expected) ==
  (sText = text /\ sKind = "mention") =>
     /\ IsPrefix(sOut, expected)
     /\ sDone => sOut = expected

\* C11: every token starts at the offset of its trigger character and ends
\* one past its last identifier character, end = start + 1 + length of the
\* identifier, the identifier being the text in between; the scan of
\* "hello @alice how are you" yields exactly {6, 12, "alice"} and the scan of
\* "@bob @carol" exactly {0, 4, "bob"} and {5, 11, "carol"}.
C11_TokenRanges ==
  /\ \A n \in 1..Len(sOut) :
       LET t == sOut[n]
       IN /\ CharAt(sText, t.start) = Trigger(sKind)
          /\ t.end = t.start + 1 + Len(t.identifier)
          /\ t.end <= Len(sText)
          /\ t.identifier = SubSeq(sText, t.start + 2, t.end)
  /\ ExampleScanned(TextHelloAlice,
       <<[start |-> 6, end |-> 12, identifier |-> <<"a", "l", "i", "c", "e">>]>>)
  /\ ExampleScanned(TextBobCarol,
       <<[start |-> 0, end |-> 4, identifier |-> <<"b", "o", "b">>],
         [start |-> 5, end |-> 11, identifier |-> <<"c", "a", "r", "o", "l">>]>>)

\* The scan of "@bob @carol" has finished with its two tokens
C11_Witness ==
  sDone /\ sText = TextBobCarol /\ sKind = "mention" /\ Len(sOut) = 2

\* The trigger of the scanned kind is at offset i and no identifier
\* character follows it
BareTriggerAt(i) ==
  /\ CharAt(sText, i) = Trigger(sKind)
  /\ CharAt(sText, i + 1) \notin IdChar

\* C12: a trigger character followed by zero identifier characters (the end
\* of the text, a space, another trigger) is in no token: no token starts at
\* it or covers it, so no mark is added for it.
C12_BareTriggerNoToken ==
  \A i \in 0..(Len(sText) - 1) :
    BareTriggerAt(i) =>
      \A n \in 1..Len(sOut) : ~(sOut[n].start <= i /\ i < sOut[n].end)

\* A finished scan of a text with a token and, after it, a trigger that
\* ends the text
C12_Witness ==
  /\ sDone
  /\ Len(sOut) = 1
  /\ Len(sText) >= 1
  /\ BareTriggerAt(Len(sText) - 1)

\* The trigger at offset i is the last of a run of two or more trigger
\* characters and an identifier follows it
RunOfTriggersEndsAt(i) ==
  /\ i >= 1
  /\ CharAt(sText, i - 1) = Trigger(sKind)
  /\ CharAt(sText, i) = Trigger(sKind)
  /\ CharAt(sText, i + 1) \in EndChar

\* C13: for a run of consecutive trigger characters followed by an
\* identifier, the finished scan has exactly one token for the run; it starts
\* at the last trigger of the run and no token starts at or covers an earlier
\* trigger of the run.  The scan of "@@bob" yields exactly {1, 5, "bob"}.
C13_RunOfTriggers ==
  /\ \A i \in 1..(Len(sText) - 1) :
       RunOfTriggersEndsAt(i) =>
         /\ sDone => Cardinality({ n \in 1..Len(sOut) : sOut[n].start = i }) = 1
         /\ \A n \in 1..Len(sOut) : ~(sOut[n].start <= i - 1 /\ i - 1 < sOut[n].end)
  /\ ExampleScanned(TextAtAtBob,
       <<[start |-> 1, end |-> 5, identifier |-> <<"b", "o", "b">>]>>)

\* The scan of "@@bob" has finished with its token
C13_Witness ==
  sDone /\ sText = TextAtAtBob /\ sKind = "mention" /\ Len(sOut) = 1

\* ------------------------------------------------------------------------
\* The suggestion hooks useMentions / useHashtags (the two have the same
\* code; the model is one instance of either)
\* ------------------------------------------------------------------------
MaxFetches == 2

MaxItems == 2

\* The oldest pending timers that are considered for firing (the code keeps
\* at most one pending)
MaxTimers == 2

\* The queries showSuggestions is called with
Queries == {<<"a">>, <<"a", "b">>, <<"a", "b", "c">>}

\* config.minCharacters as given by the host (0 stands for "not set")
MinCharactersChoices == {0, 2, 4}

\* config.maxSuggestions as given by the host (0 stands for "not set")
MaxSuggestionsChoices == {0, 1}

\* (config.maxSuggestions || 10)
DefaultMaxSuggestions == 10

Configs ==
  [hasFetch : BOOLEAN,
   minCharacters : MinCharactersChoices,
   showOnEmpty : BOOLEAN,
   maxSuggestions : MaxSuggestionsChoices]

\* s without its n-th element
RemoveAt(s, n) == [i \in 1..(Len(s) - 1) |-> IF i < n THEN s[i] ELSE s[i + 1]]

\* debouncedFetchSuggestions and hideSuggestions without their clearTimeout
ClearTimeoutMissing(ts, ref) == ts

\* if (debounceRef.current) clearTimeout(debounceRef.current)
ClearTimeout(ts, ref) == IF ref = 0 THEN ts ELSE RemoveAt(ts, ref)

Min(a, b) == IF a <= b THEN a ELSE b

\* No suggestion data
NoItem == [query |-> <<>>, item |-> 0]

\* No commit was attempted
NoCommit ==
  [attempted |-> FALSE, applied |-> FALSE, by |-> "none", kind |-> "mention",
   before |-> <<>>, after |-> <<>>, item |-> NoItem]

\* useState initial value
InitialState ==
  [isVisible |-> FALSE, query |-> <<>>, suggestions |-> <<>>, selectedIndex |-> 0]

HookInit ==
  /\ config \in Configs
  /\ mentionState = InitialState
  /\ timers = <<>>
  /\ debounceRef = 0
  /\ abortControllerRef = 0
  /\ fetches = <<>>
  /\ mounted = TRUE
  /\ scenario = 0

\* The items config.fetchSuggestions(query) resolves with, n of them
Items(query, n) == [i \in 1..n |-> [query |-> query, item |-> i]]

\* A mapping that lists the items last to first.
ToSuggestionsReversed(items) ==
  [i \in 1..Len(items) |->
     [data |-> items[Len(items) + 1 - i], selected |-> (i - 1 = 0)]]

\* suggestions.map((data, index) => ({ data, selected: index === 0 }))
ToSuggestions(items) ==
  [i \in 1..Len(items) |-> [data |-> items[i], selected |-> (i - 1 = 0)]]

\* prev.suggestions.map((s, index) => ({ ...s, selected: index === sel }))
Reselect(suggestions, sel) ==
  [i \in 1..Len(suggestions) |->
     [data |-> suggestions[i].data, selected |-> (i - 1 = sel)]]

\* (config.maxSuggestions || 10)
MaxSuggestions == IF config.maxSuggestions = 0 THEN DefaultMaxSuggestions
                  ELSE config.maxSuggestions

\* Math.min(prev.suggestions.length - 1, (config.maxSuggestions || 10) - 1)
MaxIndex(prev) == Min(Len(prev.suggestions) - 1, MaxSuggestions - 1)

\* The state updater of selectNext
SelectNextState(prev) ==
  LET nextIndex == IF prev.selectedIndex < MaxIndex(prev)
                   THEN prev.selectedIndex + 1 ELSE 0
  IN [prev EXCEPT !.selectedIndex = nextIndex,
                  !.suggestions = Reselect(prev.suggestions, nextIndex)]

\* The state updater of selectPrevious
SelectPreviousState(prev) ==
  LET prevIndex == IF prev.selectedIndex > 0
                   THEN prev.selectedIndex - 1 ELSE MaxIndex(prev)
  IN [prev EXCEPT !.selectedIndex = prevIndex,
                  !.suggestions = Reselect(prev.suggestions, prevIndex)]

\* hideSuggestions and fetchSuggestions without their abort()
AbortCurrentMissing(fs) == fs

\* if (abortControllerRef.current) abortControllerRef.current.abort()
AbortCurrent(fs) ==
  IF abortControllerRef = 0 THEN fs
  ELSE [fs EXCEPT ![abortControllerRef].aborted = TRUE]

\* Record, for the fetches in flight, that hideSuggestions has run
MarkHidden(fs) ==
  [i \in 1..Len(fs) |->
     IF watch /\ fs[i].status = "pending" THEN [fs[i] EXCEPT !.hid = TRUE] ELSE fs[i]]

\* Record, for the fetches in flight, that the component has unmounted
MarkOrphan(fs) ==
  [i \in 1..Len(fs) |->
     IF watch /\ fs[i].status = "pending" THEN [fs[i] EXCEPT !.orphan = TRUE] ELSE fs[i]]

\* The scenario counter leaves the run on any step that is not part of it
OffScenario == scenario' = -1

\* A debounce that arms the new timer without clearing the previous one.
DebouncedTimersNoClear(query) == Append(timers, [query |-> query])

\* debouncedFetchSuggestions(query): the timers after it
DebouncedTimers(query) ==
  Append(ClearTimeout(timers, debounceRef), [query |-> query])

\* showSuggestions(query), with debouncedFetchSuggestions inlined
ShowSuggestions(query) ==
  /\ mounted
  /\ mentionState' = [mentionState EXCEPT !.isVisible = TRUE, !.query = query]
  /\ IF Len(query) >= config.minCharacters
     THEN /\ timers' = DebouncedTimers(query)
          /\ debounceRef' = Len(timers')
     ELSE IF config.showOnEmpty
          THEN /\ timers' = DebouncedTimers(<<>>)
               /\ debounceRef' = Len(timers')
          ELSE UNCHANGED <<timers, debounceRef>>
  /\ scenario' = IF scenario = 0 /\ query = <<"a">> THEN 1
                 ELSE IF scenario = 1 /\ query = <<"a", "b">> THEN 2
                 ELSE IF scenario = 2 /\ query = <<"a", "b", "c">> THEN 3
                 ELSE -1
  /\ committed' = NoCommit
  /\ UNCHANGED <<config, mounted, watch, abortControllerRef, fetches>>
  /\ UNCHANGED <<editor, hookKind, scanVars, docVars, ctxVars, extVars>>

\* A reset that keeps the query.
HideStateKeepsQuery ==
  [isVisible |-> FALSE, query |-> mentionState.query, suggestions |-> <<>>,
   selectedIndex |-> 0]

\* hideSuggestions()
HideState ==
  [isVisible |-> FALSE, query |-> <<>>, suggestions |-> <<>>, selectedIndex |-> 0]

HideSuggestions ==
  /\ mounted
  /\ mentionState' = HideState
  /\ timers' = ClearTimeout(timers, debounceRef)
  /\ debounceRef' = 0
  /\ fetches' = MarkHidden(AbortCurrent(fetches))
  /\ OffScenario
  /\ UNCHANGED <<config, mounted, watch, abortControllerRef>>
  /\ UNCHANGED <<scanVars, commitVars, docVars, ctxVars, extVars>>

\* Pending timer t fires: fetchSuggestions(query) runs up to its await
DebounceFire(t) ==
  /\ t \in 1..Len(timers)
  /\ Len(fetches) < MaxFetches
  /\ timers' = RemoveAt(timers, t)
  /\ debounceRef' = IF debounceRef = t THEN 0
                    ELSE IF debounceRef > t THEN debounceRef - 1
                    ELSE debounceRef
  /\ IF ~config.hasFetch
     THEN UNCHANGED <<abortControllerRef, fetches>>
     ELSE /\ fetches' = Append(AbortCurrent(fetches),
                               [query |-> timers[t].query,
                                aborted |-> FALSE,
                                status |-> "pending",
                                hid |-> FALSE,
                                orphan |-> FALSE])
          /\ abortControllerRef' = Len(fetches) + 1
  /\ scenario' = IF scenario = 3 THEN 4 ELSE -1
  /\ UNCHANGED <<config, mounted, watch, mentionState>>
  /\ UNCHANGED <<scanVars, commitVars, docVars, ctxVars, extVars>>

\* The promise of fetch f resolves with n items: the code after the await
FetchResolve(f, n) ==
  /\ f \in 1..Len(fetches)
  /\ fetches[f].status = "pending"
  /\ fetches' = [fetches EXCEPT ![f].status = "resolved"]
  /\ IF fetches[abortControllerRef].aborted
     THEN mentionState' = mentionState
     ELSE mentionState' =
            [mentionState EXCEPT
               !.suggestions = ToSuggestions(Items(fetches[f].query, n)),
               !.selectedIndex = 0]
  /\ OffScenario
  /\ UNCHANGED <<config, mounted, watch, timers, debounceRef, abortControllerRef>>
  /\ UNCHANGED <<scanVars, commitVars, docVars, ctxVars, extVars>>

\* A catch that empties the list.
CatchStateClears(prev) == [prev EXCEPT !.suggestions = <<>>, !.selectedIndex = 0]

\* The state after the catch block: console.error at most, no setMentionState
CatchState(prev) == prev

\* The promise of fetch f rejects (or the host function throws): the catch
FetchReject(f) ==
  /\ f \in 1..Len(fetches)
  /\ fetches[f].status = "pending"
  /\ fetches' = [fetches EXCEPT ![f].status = "rejected"]
  /\ mentionState' = CatchState(mentionState)
  /\ OffScenario
  /\ UNCHANGED <<config, mounted, watch, timers, debounceRef, abortControllerRef>>
  /\ UNCHANGED <<scanVars, commitVars, docVars, ctxVars, extVars>>

\* An unmount that leaves the fetch in flight alone.
CleanupFetchesNoAbort(fs) == fs

\* if (abortControllerRef.current) abortControllerRef.current.abort(), in
\* the effect's cleanup
CleanupFetches(fs) == AbortCurrent(fs)

\* The owning component unmounts: the cleanup of the hook's effect
Unmount ==
  /\ mounted
  /\ mounted' = FALSE
  /\ timers' = ClearTimeout(timers, debounceRef)
  /\ debounceRef' = 0
  /\ fetches' = MarkOrphan(CleanupFetches(fetches))
  /\ OffScenario
  /\ UNCHANGED <<config, watch, mentionState, abortControllerRef>>
  /\ UNCHANGED <<scanVars, commitVars, docVars, ctxVars, extVars>>

\* selectNext()
SelectNext ==
  /\ mounted
  /\ mentionState' = SelectNextState(mentionState)
  /\ OffScenario
  /\ UNCHANGED <<config, mounted, watch, timers, debounceRef, abortControllerRef, fetches>>
  /\ UNCHANGED <<scanVars, commitVars, docVars, ctxVars, extVars>>

\* selectPrevious()
SelectPrevious ==
  /\ mounted
  /\ mentionState' = SelectPreviousState(mentionState)
  /\ OffScenario
  /\ UNCHANGED <<config, mounted, watch, timers, debounceRef, abortControllerRef, fetches>>
  /\ UNCHANGED <<scanVars, commitVars, docVars, ctxVars, extVars>>

\* selectSuggestion(index)
SelectSuggestion(index) ==
  /\ mounted
  /\ mentionState' =
       [mentionState EXCEPT
          !.selectedIndex = index,
          !.suggestions = Reselect(mentionState.suggestions, index)]
  /\ OffScenario
  /\ UNCHANGED <<config, mounted, watch, timers, debounceRef, abortControllerRef, fetches>>
  /\ UNCHANGED <<scanVars, commitVars, docVars, ctxVars, extVars>>

\* handleKeyDown(event) with event.key ArrowUp
KeyArrowUp ==
  /\ mounted
  /\ mentionState.isVisible
  /\ mentionState' = SelectPreviousState(mentionState)
  /\ OffScenario
  /\ UNCHANGED <<config, mounted, watch, timers, debounceRef, abortControllerRef, fetches>>
  /\ UNCHANGED <<scanVars, commitVars, docVars, ctxVars, extVars>>

\* handleKeyDown(event) with event.key ArrowDown
KeyArrowDown ==
  /\ mounted
  /\ mentionState.isVisible
  /\ mentionState' = SelectNextState(mentionState)
  /\ OffScenario
  /\ UNCHANGED <<config, mounted, watch, timers, debounceRef, abortControllerRef, fetches>>
  /\ UNCHANGED <<scanVars, commitVars, docVars, ctxVars, extVars>>

\* handleKeyDown(event) with event.key Escape
KeyEscape ==
  /\ mentionState.isVisible
  /\ HideSuggestions

\* The mention node in the text before the caret
MentionNode == "MENTION"

\* selectedHashtag.tag / item.handle of a suggestion: its query completed
HandleOf(data) == data.query \o [j \in 1..data.item |-> "e"]

\* The text before the caret while a token is typed: the trigger and the
\* query the host has passed to showSuggestions
TypedText == <<Trigger(hookKind)>> \o mentionState.query

\* editor.commands.insertContent(...) of insertMention (a mention node) and
\* of insertHashtag (the text `#${tag}`), at the caret
InsertContent(before, data) ==
  IF hookKind = "mention" THEN Append(before, MentionNode)
  ELSE before \o <<"#">> \o HandleOf(data)

\* The commit that always takes the first suggestion.
SelectedDataFirst(arg) ==
  IF arg # NoItem THEN arg
  ELSE IF mentionState.suggestions # <<>>
       THEN mentionState.suggestions[1].data
       ELSE NoItem

\* mention || mentionState.suggestions[mentionState.selectedIndex]?.data;
\* NoItem stands for undefined
SelectedData(arg) ==
  IF arg # NoItem THEN arg
  ELSE IF mentionState.selectedIndex + 1 \in 1..Len(mentionState.suggestions)
       THEN mentionState.suggestions[mentionState.selectedIndex + 1].data
       ELSE NoItem

\* insertMention(mention?) / insertHashtag(hashtag?); arg NoItem: no argument
InsertMention(arg) ==
  LET data == SelectedData(arg)
      attempt == [attempted |-> TRUE, applied |-> FALSE,
                  by |-> IF arg = NoItem THEN "key" ELSE "call",
                  kind |-> hookKind, before |-> TypedText,
                  after |-> TypedText, item |-> data]
  IN IF editor = "null" \/ data = NoItem
     THEN /\ committed' = attempt
          /\ OffScenario
          /\ UNCHANGED <<config, mounted, watch, mentionState, timers, debounceRef,
                         abortControllerRef, fetches>>
     ELSE /\ committed' =
               IF editor = "rejects" THEN attempt
               ELSE [attempt EXCEPT !.applied = TRUE,
                                    !.after = InsertContent(TypedText, data)]
          /\ mentionState' = HideState
          /\ timers' = ClearTimeout(timers, debounceRef)
          /\ debounceRef' = 0
          /\ fetches' = MarkHidden(AbortCurrent(fetches))
          /\ OffScenario
          /\ UNCHANGED <<config, mounted, watch, abortControllerRef>>

\* The host calls insertMention(mention) / handleMentionClick(mention) for
\* the token being typed
InsertMentionCall(arg) ==
  /\ mounted
  /\ arg # NoItem
  /\ mentionState.isVisible
  /\ InsertMention(arg)
  /\ UNCHANGED <<editor, hookKind, scanVars, docVars, ctxVars, extVars>>

\* handleKeyDown(event) with event.key Enter
KeyEnter ==
  /\ mounted
  /\ mentionState.isVisible
  /\ InsertMention(NoItem)
  /\ UNCHANGED <<editor, hookKind, scanVars, docVars, ctxVars, extVars>>

\* handleKeyDown(event) with event.key Tab
KeyTab ==
  /\ mounted
  /\ mentionState.isVisible
  /\ InsertMention(NoItem)
  /\ UNCHANGED <<editor, hookKind, scanVars, docVars, ctxVars, extVars>>

\* The match of /@([A-Za-z0-9_.-]*)$/ on the text before the caret: its
\* 0-based index, -1 when there is none
TrailingQueryIndex(text) ==
  LET starts == { i \in 0..(Len(text) - 1) :
                    /\ text[i + 1] = "@"
                    /\ \A j \in (i + 2)..Len(text) : text[j] \in IdChar }
  IN IF starts = {} THEN -1 ELSE SetMin(starts)

\* The texts before the trigger in the overlay's paragraph
Prefixes == {<<>>, <<"h", "i", " ">>}

\* onClick of an item of MentionSuggestions, the text before the caret
\* being prefix, "@" and the query: deleteRange({ from, to: $from.pos })
\* and insertContent(`@${item.handle} `).  The overlay is followed in an
\* editor whose hook has not been used.
OverlayClick(prefix, data) ==
  LET textBefore == prefix \o <<"@">> \o data.query
      index == TrailingQueryIndex(textBefore)
  IN /\ mentionState = InitialState
     /\ timers = <<>>
     /\ fetches = <<>>
     /\ index >= 0
     /\ committed' =
          [attempted |-> TRUE, applied |-> TRUE, by |-> "overlay",
           kind |-> "mention", before |-> textBefore,
           after |-> SubSeq(textBefore, 1, index) \o <<"@">> \o HandleOf(data)
                     \o <<" ">>,
           item |-> data]
     /\ UNCHANGED <<editor, hookKind>>
     /\ UNCHANGED <<scanVars, hookVars, docVars, ctxVars, extVars>>

\* The suggestion data the host passes to insertMention and the overlay
\* commits
CommitItems == { [query |-> <<"a">>, item |-> i] : i \in 1..MaxItems }

CommitNext ==
  \/ KeyEnter
  \/ KeyTab
  \/ \E arg \in CommitItems : InsertMentionCall(arg)
  \/ \E prefix \in Prefixes, data \in CommitItems : OverlayClick(prefix, data)

HookNext ==
  \/ \E q \in Queries : ShowSuggestions(q)
  \/ HideSuggestions
  \/ \E t \in 1..MaxTimers : DebounceFire(t)
  \/ \E f \in 1..MaxFetches, n \in 0..MaxItems : FetchResolve(f, n)
  \/ \E f \in 1..MaxFetches : FetchReject(f)
  \/ KeyArrowUp
  \/ KeyArrowDown
  \/ KeyEscape
  \/ SelectNext
  \/ SelectPrevious
  \/ \E index \in -1..MaxItems : SelectSuggestion(index)

\* ------------------------------------------------------------------------
\* Claims about the suggestion hooks
\* ------------------------------------------------------------------------
\* Fetch f has been superseded: a newer fetch has been started after it
Superseded(f) == f < Len(fetches)

\* C1 as stated: when a fetch that a newer fetch has superseded resolves, the
\* suggestion state is not written, whatever the order of the resolutions.
C1_SupersededNeverWritten ==
  [][\A f \in 1..Len(fetches) :
       (/\ Superseded(f)
        /\ fetches[f].status = "pending"
        /\ fetches'[f].status = "resolved")
       => mentionState' = mentionState]_vars

\* The fetch the timer of the run "a", "ab", "abc" starts
AbcFetch ==
  [query |-> <<"a", "b", "c">>, aborted |-> FALSE, status |-> "pending",
   hid |-> FALSE, orphan |-> FALSE]

\* After the three calls exactly one timer is pending, the one for "abc",
\* and nothing has been fetched; once it has fired, config.fetchSuggestions
\* has been called exactly once, with "abc", and that fetch is not aborted.
AbcRunFetchesOnce ==
  /\ scenario \in 1..2 => fetches = <<>>
  /\ scenario = 3 => /\ fetches = <<>>
                     /\ timers = <<[query |-> <<"a", "b", "c">>]>>
  /\ scenario = 4 => /\ fetches = <<AbcFetch>>
                     /\ timers = <<>>

\* C4 as stated: in a hook with a config.fetchSuggestions function,
\* showSuggestions("a"), ("ab"), ("abc") without a timer firing in between
\* lead to exactly one call of config.fetchSuggestions, with "abc", that is
\* not cancelled.
C4_AbcRunAsClaimed == config.hasFetch => AbcRunFetchesOnce

\* C4 amended: the same, when config.minCharacters is at most 3, the length
\* of "abc".
C4_AbcRun ==
  (config.hasFetch /\ config.minCharacters <= 3) => AbcRunFetchesOnce

\* The timer of the run has fired in a hook with minCharacters 2, where "a"
\* armed no timer
C4_Witness ==
  /\ scenario = 4
  /\ config.hasFetch
  /\ config.minCharacters = 2
  /\ fetches = <<AbcFetch>>

Max(a, b) == IF a >= b THEN a ELSE b

\* selectedIndex is within [0, min(items.length, maxSuggestions) - 1]; while
\* no items have arrived it is the initial 0
InIndexRange(st) ==
  /\ 0 <= st.selectedIndex
  /\ st.selectedIndex <= Max(0, Min(Len(st.suggestions), MaxSuggestions) - 1)

\* C5 as stated: while the list is visible, an ArrowUp or ArrowDown handled
\* by handleKeyDown leaves selectedIndex within
\* [0, min(items.length, maxSuggestions) - 1], also when no items have
\* arrived yet.
C5_ArrowKeysKeepIndexInRange ==
  [][((KeyArrowUp \/ KeyArrowDown) /\ InIndexRange(mentionState))
     => InIndexRange(mentionState')]_vars

\* C6 as stated: whenever isVisible, 0 <= selectedIndex < suggestions.length.
C6_VisibleIndexInBounds ==
  mentionState.isVisible =>
    /\ 0 <= mentionState.selectedIndex
    /\ mentionState.selectedIndex < Len(mentionState.suggestions)

\* C7: whenever isVisible is false, suggestions is empty and query is "".
C7_HiddenIsEmpty ==
  ~mentionState.isVisible =>
    /\ mentionState.suggestions = <<>>
    /\ mentionState.query = <<>>

\* The list is hidden after a fetch that hideSuggestions aborted in flight
\* has resolved
C7_Witness ==
  /\ ~mentionState.isVisible
  /\ \E f \in 1..Len(fetches) :
       /\ fetches[f].status = "resolved"
       /\ fetches[f].aborted
       /\ ~Superseded(f)

\* C21: when the promise of config.fetchSuggestions rejects, or the function
\* throws, the catch leaves isVisible, query, suggestions and selectedIndex
\* as they were, so no item of the failed fetch is shown, and the failure
\* ends there: the fetch is over and the hook's timers and controller are
\* untouched.
C21_FailedFetchLeavesState ==
  [][\A f \in 1..MaxFetches :
       FetchReject(f) =>
         /\ mentionState' = mentionState
         /\ fetches'[f].status = "rejected"
         /\ <<timers, debounceRef, abortControllerRef>>' =
              <<timers, debounceRef, abortControllerRef>>]_vars

\* A fetch has failed while the list of an earlier fetch was shown, and the
\* list is still there
C21_Witness ==
  /\ mentionState.isVisible
  /\ mentionState.suggestions # <<>>
  /\ \E f \in 1..Len(fetches) : fetches[f].status = "rejected"

\* C22 as stated: a fetch that was in flight when hideSuggestions ran does
\* not change the suggestion state when it resolves, whatever happened in
\* between, a new showSuggestions and a new fetch included.
C22_HiddenFetchNeverWrites ==
  [][\A f \in 1..Len(fetches) :
       (/\ fetches[f].hid
        /\ fetches[f].status = "pending"
        /\ fetches'[f].status = "resolved")
       => mentionState' = mentionState]_vars

\* C23: once the owning component has unmounted no debounce timer is
\* pending, so none fires a fetch, and no step changes the suggestion state
\* or starts a fetch: the fetches in flight at the unmount resolve without
\* a write.
C23_UnmountedIsQuiet ==
  /\ [](~mounted => timers = <<>>)
  /\ [][~mounted => /\ mentionState' = mentionState
                    /\ Len(fetches') = Len(fetches)]_vars

\* Two fetches, one superseded and one current, were in flight at the
\* unmount and have resolved since, below a list that was still empty
C23_Witness ==
  /\ ~mounted
  /\ Len(fetches) = 2
  /\ \A f \in 1..2 : fetches[f].orphan /\ fetches[f].status = "resolved"
  /\ mentionState.isVisible
  /\ mentionState.suggestions = <<>>

\* C24: when the latest fetch resolves with n items and has not been
\* cancelled, the suggestions become exactly its items in their order, the
\* first one selected, selectedIndex becomes 0, and isVisible and query are
\* unchanged.
C24_LatestFetchReplacesItems ==
  [][\A f \in 1..MaxFetches, n \in 0..MaxItems :
       (/\ FetchResolve(f, n)
        /\ f = Len(fetches)
        /\ ~fetches[f].aborted)
       => mentionState' =
            [isVisible |-> mentionState.isVisible,
             query |-> mentionState.query,
             suggestions |->
               [i \in 1..n |-> [data |-> [query |-> fetches[f].query, item |-> i],
                                selected |-> (i = 1)]],
             selectedIndex |-> 0]]_vars

\* The second fetch has resolved uncancelled with two items, which are the
\* list
C24_Witness ==
  /\ Len(fetches) = 2
  /\ fetches[2].status = "resolved"
  /\ ~fetches[2].aborted
  /\ Len(mentionState.suggestions) = 2
  /\ mentionState.suggestions[2].data = [query |-> fetches[2].query, item |-> 2]
  /\ mentionState.selectedIndex = 0

LatestAsked ==
  IF Len(mentionState.query) < config.minCharacters /\ config.showOnEmpty
  THEN <<>> ELSE mentionState.query

\* C31 as stated: the fetch a debounce timer starts when it fires is the
\* one the most recent showSuggestions call asks for: after a call with a
\* newer query no fetch for an older query starts, also when the newer
\* query is shorter than minCharacters or showOnEmpty is set.
C31_FetchIsForLatestQuery ==
  [][\A t \in 1..MaxTimers :
       (DebounceFire(t) /\ config.hasFetch)
       => fetches'[Len(fetches')].query = LatestAsked]_vars

\* The list is visible, no timer is pending, every fetch has resolved, and
\* the newest fetch is the one for the query of the state
Settled ==
  /\ mentionState.isVisible
  /\ timers = <<>>
  /\ fetches # <<>>
  /\ \A f \in 1..Len(fetches) : fetches[f].status = "resolved"
  /\ fetches[Len(fetches)].query = mentionState.query
  /\ ~fetches[Len(fetches)].aborted

\* C32 as stated: once the user has stopped at a query, its timer has fired
\* and every outstanding fetch has resolved, the items shown are those of
\* the fetch for that query, in whatever order the fetches resolved.
C32_SettledShowsLatest ==
  Settled =>
    \A i \in 1..Len(mentionState.suggestions) :
      mentionState.suggestions[i].data.query = mentionState.query

\* ------------------------------------------------------------------------
\* The editor: the caret's paragraph, its marks and the onUpdate handler
\* ------------------------------------------------------------------------
MaxParaLen == 3

\* The number of nested onUpdate calls the call stack has room for
StackLimit == 5

\* A hard break (Shift+Enter): an inline leaf node of size 1 without text
HardBreak == "BR"

\* The inline nodes a paragraph is built from: characters and hard breaks
DocItems == {"@", "#", "a", " ", HardBreak}

\* No mark of the kind at a position
NoMark == <<>>

AllKinds(v) == [k \in Kinds |-> v]

\* parent.textContent: the text of the text nodes; a hard break has none
RECURSIVE TextContent(_)
TextContent(items) ==
  IF items = <<>> THEN <<>>
  ELSE IF Head(items) = HardBreak THEN TextContent(Tail(items))
       ELSE <<Head(items)>> \o TextContent(Tail(items))

\* The mark type looked up as if every type were in the schema.
TypeRegisteredAlways(kind) == TRUE

\* (editor.schema.marks as any)["mentionHighlight"]: the mark type is in the
\* schema when its extension was pushed at the creation of the editor
TypeRegistered(kind) == schemaMarks[kind]

\* A removeMark that records a step over the whole range whether or not a
\* mark is there.
RemoveMarkStepsAlways(m, from, to) ==
  <<[op |-> "removeMark", from |-> from, to |-> to, attr |-> NoMark]>>

\* The steps of tr.removeMark(from, to, type) on the marks m of the kind:
\* one RemoveMarkStep per run of adjacent positions with the same mark.
\* Positions are relative to $from.start().
RECURSIVE RemoveMarkSteps(_, _, _)
RemoveMarkSteps(m, from, to) ==
  LET hi == Min(to, Len(m))
  IN IF from >= hi THEN <<>>
     ELSE IF m[from + 1] = NoMark THEN RemoveMarkSteps(m, from + 1, to)
     ELSE LET e == SetMin({ q \in (from + 1)..hi : q = hi \/ m[q + 1] # m[from + 1] })
          IN <<[op |-> "removeMark", from |-> from, to |-> e, attr |-> m[from + 1]]>>
             \o RemoveMarkSteps(m, e, to)

\* The token replaced by a node instead of being marked.
AddMarkStepsAsReplace(m, from, to, attr) ==
  <<[op |-> "replace", from |-> from, to |-> to, attr |-> attr]>>

\* The steps of tr.addMark(from, to, mark) on the marks m of the kind: one
\* AddMarkStep per run of adjacent positions that do not carry the mark yet
RECURSIVE AddMarkSteps(_, _, _, _)
AddMarkSteps(m, from, to, attr) ==
  LET hi == Min(to, Len(m))
  IN IF from >= hi THEN <<>>
     ELSE IF m[from + 1] = attr THEN AddMarkSteps(m, from + 1, to, attr)
     ELSE LET e == SetMin({ q \in (from + 1)..hi : q = hi \/ m[q + 1] = attr })
          IN <<[op |-> "addMark", from |-> from, to |-> e, attr |-> attr]>>
             \o AddMarkSteps(m, e, to, attr)

\* The marks of the kind after one step; a mark of a type replaces the mark
\* of the same type at a position
ApplyStep(m, st) ==
  [p \in 1..Len(m) |->
     IF st.from <= p - 1 /\ p - 1 < st.to
     THEN IF st.op = "addMark" THEN st.attr
          ELSE IF m[p] = st.attr THEN NoMark ELSE m[p]
     ELSE m[p]]

RECURSIVE ApplySteps(_, _)
ApplySteps(m, steps) ==
  IF steps = <<>> THEN m ELSE ApplySteps(ApplyStep(m, Head(steps)), Tail(steps))

\* tr with more steps: the steps so far and the marks of tr.doc
WithSteps(tr, steps) ==
  [steps |-> tr.steps \o steps, m |-> ApplySteps(tr.m, steps)]

\* while (match) { tr.addMark(from, to, type.create({ ..., match[1] })) }
RECURSIVE AddTokenMarks(_, _)
AddTokenMarks(tr, tokens) ==
  IF tokens = <<>> THEN tr
  ELSE LET t == Head(tokens)
       IN AddTokenMarks(
            WithSteps(tr, AddMarkSteps(tr.m, t.start, t.end, t.identifier)),
            Tail(tokens))

\* The marks of the kind in the document from $from.start() on: those of
\* the caret's paragraph, none on the two tokens that close it and open the
\* next paragraph, those of the next paragraph
DocMarks(kind) == marks[kind] \o <<NoMark, NoMark>> \o otherMarks[kind]

\* The part of such marks that lies in the caret's paragraph
CaretPart(m) == SubSeq(m, 1, Len(para))

\* The part of such marks that lies in the next paragraph
OtherPart(m) == SubSeq(m, Len(para) + 3, Len(m))

\* A range that runs to the end of the document.
RangeEndOfDoc == Len(para) + 2 + Len(otherPara)

\* startPos + text.length, relative to startPos
RangeEnd == Len(TextContent(para))

\* The transaction one highlighter block of onUpdate builds for the kind:
\* tr = state.tr, removeMark over [startPos, startPos + text.length), then
\* one addMark per match
BuildTr(kind) ==
  LET text == TextContent(para)
      tr0 == [steps |-> <<>>, m |-> DocMarks(kind)]
  IN IF ~TypeRegistered(kind) THEN tr0
     ELSE AddTokenMarks(
            WithSteps(tr0, RemoveMarkSteps(DocMarks(kind), 0, RangeEnd)),
            Scan(text, kind))

\* The block that follows the block of the kind in onUpdate
NextPc(kind) == IF kind = "mention" THEN "hashtag" ELSE "ret"

\* The calls that have nothing left to do return
RECURSIVE Unwind(_)
Unwind(st) ==
  IF st # <<>> /\ Last(st) = "ret"
  THEN Unwind(SubSeq(st, 1, Len(st) - 1))
  ELSE st

\* s with x inserted after its first n elements
InsertAt(s, n, x) ==
  [i \in 1..(Len(s) + 1) |-> IF i <= n THEN s[i] ELSE IF i = n + 1 THEN x ELSE s[i - 1]]

DocInit ==
  /\ enabled \in [Kinds -> BOOLEAN]
  /\ schemaMarks = enabled
  /\ engineEq \in BOOLEAN
  /\ para = <<>>
  /\ marks = AllKinds(<<>>)
  /\ stack = <<>>
  /\ reconciled = AllKinds(FALSE)
  /\ otherPara = <<>>
  /\ otherMarks = AllKinds(<<>>)

\* The user types a character or a hard break after position pos; the new
\* node takes the marks of the node before it or none.  The engine emits
\* 'update' and onUpdate starts.
InsertItem(pos, item, inherit) ==
  /\ stack = <<>>
  /\ Len(para) < MaxParaLen
  /\ pos \in 0..Len(para)
  /\ para' = InsertAt(para, pos, item)
  /\ marks' = [k \in Kinds |->
                 InsertAt(marks[k], pos,
                          IF inherit /\ pos >= 1 THEN marks[k][pos] ELSE NoMark)]
  /\ stack' = <<"mention">>
  /\ reconciled' = AllKinds(FALSE)
  /\ UNCHANGED <<enabled, schemaMarks, engineEq, otherPara, otherMarks>>
  /\ UNCHANGED <<scanVars, hookVars, commitVars, ctxVars, extVars>>

\* The user deletes the node at position pos
DeleteItem(pos) ==
  /\ stack = <<>>
  /\ pos \in 1..Len(para)
  /\ para' = RemoveAt(para, pos)
  /\ marks' = [k \in Kinds |-> RemoveAt(marks[k], pos)]
  /\ stack' = <<"mention">>
  /\ reconciled' = AllKinds(FALSE)
  /\ UNCHANGED <<enabled, schemaMarks, engineEq, otherPara, otherMarks>>
  /\ UNCHANGED <<scanVars, hookVars, commitVars, ctxVars, extVars>>

\* The user changes the document around the paragraph (toggles a list):
\* its text and its mention and hashtag marks stay, 'update' is emitted
FormatEdit ==
  /\ stack = <<>>
  /\ stack' = <<"mention">>
  /\ UNCHANGED <<enabled, schemaMarks, engineEq, para, marks, reconciled>>
  /\ UNCHANGED <<otherPara, otherMarks>>
  /\ UNCHANGED <<scanVars, hookVars, commitVars, ctxVars, extVars>>

\* The component renders again with the flag of a kind changed: the
\* handler sees the new flag, the schema of the editor stays as created.
\* The model follows flag changes made while the paragraph is still empty.
SetFlag(kind) ==
  /\ stack = <<>>
  /\ para = <<>>
  /\ enabled' = [enabled EXCEPT ![kind] = ~enabled[kind]]
  /\ UNCHANGED <<schemaMarks, engineEq, para, marks, stack, reconciled>>
  /\ UNCHANGED <<otherPara, otherMarks>>
  /\ UNCHANGED <<scanVars, hookVars, commitVars, ctxVars, extVars>>

\* The paragraphs a new content prop puts in the document: the caret's and
\* the one after it
Contents ==
  {<<"@", "a", "#", "a">>, <<"#", "a", " ", "@", "a">>,
   <<"@", "a", HardBreak, "#", "a">>}

OtherContents == {<<>>, <<"@", "a">>, <<"a", " ", "#", "a">>}

\* The marks of the kind a paragraph of text has when the HTML it was
\* parsed from carries the highlight span of every token
ParsedMarks(text, kind) ==
  AddTokenMarks([steps |-> <<>>, m |-> [i \in 1..Len(text) |-> NoMark]],
                Scan(text, kind)).m

\* setContent(content, emitUpdate) of useWInkEditor:
\* editor.commands.setContent(content, { emitUpdate }) replaces the
\* document, and the engine emits 'update' for the replacement when the
\* emitUpdate option is true: onUpdate starts.  The caret's paragraph comes
\* without highlight spans, the other one with or without them.
SetContent(content, other, spans, emits) ==
  /\ stack = <<>>
  /\ stack' = IF emits THEN <<"mention">> ELSE stack
  /\ para' = content
  /\ marks' = AllKinds([i \in 1..Len(content) |-> NoMark])
  /\ otherPara' = other
  /\ otherMarks' = [k \in Kinds |->
                      IF spans THEN ParsedMarks(other, k)
                      ELSE [i \in 1..Len(other) |-> NoMark]]
  /\ reconciled' = AllKinds(FALSE)
  /\ UNCHANGED <<enabled, schemaMarks, engineEq>>
  /\ UNCHANGED <<scanVars, hookVars, commitVars, ctxVars, extVars>>

\* editor.getHTML(): the paragraphs and their highlight spans
GetHTML == <<para, marks, otherPara, otherMarks>>

\* The document a content prop is parsed to
ContentHTML(content, other, spans) ==
  <<content, AllKinds([i \in 1..Len(content) |-> NoMark]), other,
    [k \in Kinds |->
       IF spans THEN ParsedMarks(other, k)
       ELSE [i \in 1..Len(other) |-> NoMark]]>>

\* A content effect that asks for the 'update' event
ContentSyncEmits(content, other, spans) ==
  /\ ContentHTML(content, other, spans) # GetHTML
  /\ SetContent(content, other, spans, TRUE)

\* The effect on [content, editor]: when the content prop differs from
\* editor.getHTML() it calls editor.commands.setContent(content,
\* { emitUpdate: false })
ContentSync(content, other, spans) ==
  /\ ContentHTML(content, other, spans) # GetHTML
  /\ SetContent(content, other, spans, FALSE)

\* if (tr.steps.length > 0) editor.view.dispatch(tr)
Dispatches(kind) == BuildTr(kind).steps # <<>>

\* One highlighter block of the innermost running onUpdate.  Its
\* editor.view.dispatch(tr) applies the steps and, when the engine emits
\* 'update' for the transaction, calls onUpdate again before it returns;
\* when the stack has no room for that call the error is swallowed by the
\* block's catch.
ReconcileBlock(kind) ==
  /\ stack # <<>>
  /\ Last(stack) = kind
  /\ LET tr == BuildTr(kind)
         dispatched == enabled[kind] /\ Dispatches(kind)
         emits == dispatched /\ ~(engineEq /\ tr.m = DocMarks(kind))
         cont == [stack EXCEPT ![Len(stack)] = NextPc(kind)]
     IN /\ marks' = IF dispatched
                   THEN [marks EXCEPT ![kind] = CaretPart(tr.m)]
                   ELSE marks
        /\ otherMarks' = IF dispatched
                        THEN [otherMarks EXCEPT ![kind] = OtherPart(tr.m)]
                        ELSE otherMarks
        /\ stack' = IF emits /\ Len(stack) < StackLimit
                    THEN Append(cont, "mention")
                    ELSE Unwind(cont)
        /\ reconciled' = IF enabled[kind]
                         THEN [reconciled EXCEPT ![kind] = TRUE]
                         ELSE reconciled
  /\ UNCHANGED <<enabled, schemaMarks, engineEq, para, otherPara>>
  /\ UNCHANGED <<scanVars, hookVars, commitVars, ctxVars, extVars>>

\* if (enableMentions) { ... } of onUpdate
OnUpdateMentions == ReconcileBlock("mention")

\* if (enableHashtags) { ... } of onUpdate
OnUpdateHashtags == ReconcileBlock("hashtag")

DocNext ==
  \/ \E pos \in 0..MaxParaLen, item \in DocItems, inherit \in BOOLEAN :
       InsertItem(pos, item, inherit)
  \/ \E pos \in 1..MaxParaLen : DeleteItem(pos)
  \/ FormatEdit
  \/ \E kind \in Kinds : SetFlag(kind)
  \/ OnUpdateMentions
  \/ OnUpdateHashtags

C3_SecondReconcileHasNoSteps ==
  \A k \in Kinds :
    (stack # <<>> /\ Last(stack) = k /\ enabled[k] /\ reconciled[k])
      => BuildTr(k).steps = <<>>

\* The offset in parent.textContent of the character at position i (1-based)
\* of the paragraph
TextOffset(i) == Len(TextContent(SubSeq(para, 1, i - 1)))

\* The mark a character at text offset off carries when the marks are those
\* of the tokens
TokenMarkAt(tokens, off) ==
  IF \E n \in 1..Len(tokens) : tokens[n].start <= off /\ off < tokens[n].end
  THEN LET n == CHOOSE n \in 1..Len(tokens) :
                  tokens[n].start <= off /\ off < tokens[n].end
       IN tokens[n].identifier
  ELSE NoMark

\* C8 as stated: once onUpdate has reconciled a kind, every character of a
\* token of the paragraph's text carries the mark with that token's
\* identifier and every other character carries no mark of the kind.
C8_MarksAreTheTokens ==
  \A k \in Kinds :
    (enabled[k] /\ TypeRegistered(k) /\ reconciled[k]) =>
      \A i \in 1..Len(para) :
        para[i] # HardBreak =>
          marks[k][i] = TokenMarkAt(Scan(TextContent(para), k), TextOffset(i))

\* The block of kind k is the next thing the innermost onUpdate runs
BlockNext(k) == stack # <<>> /\ Last(stack) = k /\ enabled[k]

NoMarks(k) == \A i \in 1..Len(marks[k]) : marks[k][i] = NoMark

\* C14: when the paragraph holds no token of a kind and carries no mark of
\* the kind, the block of the kind dispatches no transaction.
C14_NothingToDoNoDispatch ==
  \A k \in Kinds :
    (BlockNext(k) /\ Scan(TextContent(para), k) = <<>> /\ NoMarks(k))
      => ~Dispatches(k)

\* The mention block is about to run on a paragraph with text, no token
\* and no mark, its mark type being in the schema
C14_Witness ==
  /\ BlockNext("mention")
  /\ TypeRegistered("mention")
  /\ TextContent(para) # <<>>
  /\ Scan(TextContent(para), "mention") = <<>>
  /\ NoMarks("mention")

\* C15: when the mark type of a kind is not in the schema, the block of the
\* kind dispatches nothing and fails with nothing: the marks and the
\* paragraph are as before and no onUpdate call is nested in it, whatever
\* the text.
C15_UnregisteredTypeSkipped ==
  [][\A k \in Kinds :
       (ReconcileBlock(k) /\ enabled[k] /\ ~schemaMarks[k])
         => /\ marks' = marks
            /\ para' = para
            /\ Len(stack') <= Len(stack)]_vars

\* The block of a kind whose type is not in the schema has run on a
\* paragraph with a token of the kind
C15_Witness ==
  \E k \in Kinds :
    /\ enabled[k]
    /\ ~schemaMarks[k]
    /\ reconciled[k]
    /\ Scan(TextContent(para), k) # <<>>

NodesIn(from, to) == SubSeq(para, from + 1, Min(to, Len(para)))

\* C34 as stated: when a highlighter block runs, the range it clears of
\* marks is the whole content of the caret's paragraph, and the range it
\* marks for a token holds exactly the characters of the token, hard breaks
\* before or between the tokens or not.
C34_RangesAreTheTokens ==
  \A k \in Kinds :
    (BlockNext(k) /\ TypeRegistered(k)) =>
      LET tokens == Scan(TextContent(para), k)
      IN /\ RangeEnd = Len(para)
         /\ \A n \in 1..Len(tokens) :
              NodesIn(tokens[n].start, tokens[n].end) =
                <<Trigger(k)>> \o tokens[n].identifier

\* C25 as stated: the onUpdate handler of one change notification has
\* returned before the handler of any other starts: at most one call of
\* onUpdate is running at any time.
C25_HandlerNotReentered == Len(stack) <= 1

\* The tokens of the two kinds in a text share no position
TokensDisjoint(text) ==
  LET ms == Scan(text, "mention")
      hs == Scan(text, "hashtag")
  IN \A i \in 1..Len(ms), j \in 1..Len(hs) :
       ms[i].end <= hs[j].start \/ hs[j].end <= ms[i].start

\* C29: the mention tokens and the hashtag tokens of the caret's paragraph
\* share no position, and the highlighter block of one kind leaves every
\* mark of the other kind as it is, in both paragraphs.
C29_KindsDoNotInteract ==
  /\ [](TokensDisjoint(TextContent(para)))
  /\ [][\A k \in Kinds :
          ReconcileBlock(k) =>
            \A o \in Kinds \ {k} :
              marks'[o] = marks[o] /\ otherMarks'[o] = otherMarks[o]]_vars

\* The paragraph "@a#a" after onUpdate has returned: the mention mark is on
\* "@a" only and the hashtag mark on "#a" only
C29_Witness ==
  /\ stack = <<>>
  /\ para = <<"@", "a", "#", "a">>
  /\ marks["mention"] = <<<<"a">>, <<"a">>, NoMark, NoMark>>
  /\ marks["hashtag"] = <<NoMark, NoMark, <<"a">>, <<"a">>>>

C39_ContentSyncIsSilent ==
  [][\A content \in Contents, other \in OtherContents, spans \in BOOLEAN :
       ContentSync(content, other, spans)
         => /\ stack' = <<>>
            /\ reconciled' = AllKinds(FALSE)]_vars

\* The content prop put two tokens in the caret's paragraph and no onUpdate
\* ran for it: the tokens have no marks
C39_Witness ==
  /\ stack = <<>>
  /\ para = <<"@", "a", "#", "a">>
  /\ reconciled = AllKinds(FALSE)
  /\ marks = AllKinds(<<NoMark, NoMark, NoMark, NoMark>>)

\* No editor is mounted
DocIdle ==
  /\ enabled = AllKinds(TRUE)
  /\ schemaMarks = AllKinds(TRUE)
  /\ engineEq = FALSE
  /\ para = <<>>
  /\ marks = AllKinds(<<>>)
  /\ stack = <<>>
  /\ reconciled = AllKinds(FALSE)
  /\ otherPara = <<>>
  /\ otherMarks = AllKinds(<<>>)

\* ------------------------------------------------------------------------
\* Claims about commit and escape
\* ------------------------------------------------------------------------
\* The 0-based offset where the active token starts: the last trigger of
\* the kind with only identifier characters between it and the caret
ActiveTokenStart(text, kind) ==
  SetMax({ i \in 0..(Len(text) - 1) : text[i + 1] = Trigger(kind) })

\* The text before the caret the commit contract asks for: the active token
\* replaced by the trigger, the chosen handle or tag and one space
ExpectedAfter(c) ==
  SubSeq(c.before, 1, ActiveTokenStart(c.before, c.kind))
    \o <<Trigger(c.kind)>> \o HandleOf(c.item) \o <<" ">>

\* C17 as stated: a commit that is applied replaces exactly the active token
\* (the trigger and the query typed so far) by the trigger, the chosen
\* handle or tag and one trailing space, and a commit through the hook
\* leaves the suggestion state reset; for the overlay's click and for
\* insertMention / insertHashtag.
C17_CommitReplacesToken ==
  [][(committed' # committed /\ committed'.applied)
       => /\ committed'.after = ExpectedAfter(committed')
          /\ committed'.by \in {"key", "call"} => mentionState' = InitialState]_vars

C19_FailedCommitResets ==
  [][((KeyEnter \/ KeyTab \/ \E arg \in CommitItems : InsertMentionCall(arg))
      /\ editor \in {"null", "rejects"}
      /\ committed'.item # NoItem)
       => /\ ~committed'.applied
          /\ committed'.after = committed'.before
          /\ mentionState' = InitialState]_vars

\* C20: Escape while the list is visible resets the state to Idle, leaves no
\* timer pending, leaves every fetch in flight stale (its result will not be
\* written), and changes nothing in the document.
C20_EscapeResets ==
  [][KeyEscape
       => /\ mentionState' = InitialState
          /\ timers' = <<>>
          /\ debounceRef' = 0
          /\ \A f \in 1..Len(fetches') :
               fetches'[f].status = "pending" => fetches'[abortControllerRef'].aborted
          /\ committed' = committed]_vars

\* Escape was pressed while a fetch was in flight: the state is Idle, no
\* commit was attempted and the fetch is stale
C20_Witness ==
  /\ mentionState = InitialState
  /\ ~committed.attempted
  /\ timers = <<>>
  /\ \E f \in 1..Len(fetches) : fetches[f].status = "pending"
  /\ abortControllerRef >= 1
  /\ fetches[abortControllerRef].aborted

\* ------------------------------------------------------------------------
\* The caret's suggestion context
\* ------------------------------------------------------------------------
MaxCtxLen == 3

\* The inline nodes before the caret: characters, "!" for punctuation, and
\* hard breaks
CtxItems == {"@", "#", "a", " ", "!", HardBreak}

\* The context functions have not been called since the last change
NoCall == [called |-> FALSE, kind |-> "mention", live |-> FALSE, query |-> <<>>]

CtxInit ==
  /\ cBefore = <<>>
  /\ cCut = 0
  /\ keyDown = FALSE
  /\ oOpen = FALSE
  /\ oQuery = <<>>
  /\ oFresh = TRUE
  /\ cHook = NoCall

\* $from.nodeBefore?.textContent || "": the text of the node that ends at
\* the caret, which starts after the last hard break and the last change
\* of marks; a hard break has no text
NodeBeforeText(before, cut) ==
  LET breaks == { i \in 1..Len(before) : before[i] = HardBreak }
      start == SetMax(breaks \cup {cut})
  IN SubSeq(before, start + 1, Len(before))

\* text.lastIndexOf(ch), 0-based, -1 when ch is not in text
LastIndexOf(text, ch) ==
  LET at == { i \in 1..Len(text) : text[i] = ch }
  IN IF at = {} THEN -1 ELSE SetMax(at) - 1

\* text.slice(n)
Slice(text, n) == SubSeq(text, n + 1, Len(text))

\* isInMentionContext() / isInHashtagContext(); no node of the schema is
\* named "mention", so the test of $from.node() is false
IsInMentionContext(before, cut, kind) ==
  LET textBefore == NodeBeforeText(before, cut)
      triggerIndex == LastIndexOf(textBefore, Trigger(kind))
      textAfterTrigger == Slice(textBefore, triggerIndex + 1)
  IN /\ triggerIndex # -1
     /\ \A i \in 1..Len(textAfterTrigger) : textAfterTrigger[i] # " "

\* getMentionQuery() / getHashtagQuery()
GetMentionQuery(before, cut, kind) ==
  LET textBefore == NodeBeforeText(before, cut)
      triggerIndex == LastIndexOf(textBefore, Trigger(kind))
  IN IF triggerIndex # -1 THEN Slice(textBefore, triggerIndex + 1) ELSE <<>>

\* The host calls the two context functions of the hook of the kind
CallHook(kind) ==
  /\ cHook' = [called |-> TRUE, kind |-> kind,
               live |-> IsInMentionContext(cBefore, cCut, kind),
               query |-> GetMentionQuery(cBefore, cCut, kind)]
  /\ UNCHANGED <<cBefore, cCut, keyDown, oOpen, oQuery, oFresh>>
  /\ UNCHANGED <<scanVars, hookVars, commitVars, docVars, extVars>>

\* !(!match || qRaw.length === 0) of the overlay's handler; textBetween
\* puts "\uFFFC", which is no identifier character, for a hard break
OverlayOpens(textBefore) ==
  LET index == TrailingQueryIndex(textBefore)
  IN index # -1 /\ Len(Slice(textBefore, index + 1)) # 0

\* The keyup and click handler of MentionSuggestions
OverlayHandler ==
  /\ IF OverlayOpens(cBefore)
     THEN /\ oQuery' = Slice(cBefore, TrailingQueryIndex(cBefore) + 1)
          /\ oOpen' = TRUE
     ELSE /\ oOpen' = FALSE
          /\ oQuery' = oQuery
  /\ oFresh' = TRUE

\* A key that types a character or a hard break goes down, or repeats: the
\* node is appended, alone in a new text node when its marks differ from
\* those before it; 'update' is emitted and onUpdate runs and returns
\* before any other event is handled
KeyType(item, newNode) ==
  /\ Len(cBefore) < MaxCtxLen
  /\ cBefore' = Append(cBefore, item)
  /\ cCut' = IF newNode THEN Len(cBefore) ELSE cCut
  /\ keyDown' = TRUE
  /\ oFresh' = FALSE
  /\ cHook' = NoCall
  /\ UNCHANGED <<oOpen, oQuery>>
  /\ UNCHANGED <<scanVars, hookVars, commitVars, docVars, extVars>>

\* Backspace goes down, or repeats
KeyBackspace ==
  /\ cBefore # <<>>
  /\ cBefore' = SubSeq(cBefore, 1, Len(cBefore) - 1)
  /\ cCut' = Min(cCut, Len(cBefore'))
  /\ keyDown' = TRUE
  /\ oFresh' = FALSE
  /\ cHook' = NoCall
  /\ UNCHANGED <<oOpen, oQuery>>
  /\ UNCHANGED <<scanVars, hookVars, commitVars, docVars, extVars>>

\* The key goes up: keyup on view.dom
KeyUp ==
  /\ keyDown
  /\ keyDown' = FALSE
  /\ OverlayHandler
  /\ UNCHANGED <<cBefore, cCut, cHook>>
  /\ UNCHANGED <<scanVars, hookVars, commitVars, docVars, extVars>>

\* The user clicks at the caret: click on view.dom
Click ==
  /\ ~keyDown
  /\ OverlayHandler
  /\ UNCHANGED <<cBefore, cCut, keyDown, cHook>>
  /\ UNCHANGED <<scanVars, hookVars, commitVars, docVars, extVars>>

\* pasteText(text) of the clipboard hook, called by the host: the text is
\* inserted at the caret, 'update' is emitted and onUpdate runs; no key or
\* mouse event of the editor is involved
PasteText(item) ==
  /\ ~keyDown
  /\ Len(cBefore) < MaxCtxLen
  /\ item # HardBreak
  /\ cBefore' = Append(cBefore, item)
  /\ oFresh' = FALSE
  /\ cHook' = NoCall
  /\ UNCHANGED <<cCut, keyDown, oOpen, oQuery>>
  /\ UNCHANGED <<scanVars, hookVars, commitVars, docVars, extVars>>

CtxNext ==
  \/ \E item \in CtxItems, newNode \in BOOLEAN : KeyType(item, newNode)
  \/ KeyBackspace
  \/ KeyUp
  \/ Click
  \/ \E item \in CtxItems : PasteText(item)
  \/ \E kind \in Kinds : CallHook(kind)

\* The text before the caret ends with the trigger of the kind followed by
\* identifier characters only: the 0-based index of that trigger, -1 when
\* there is none
LiveTriggerIndex(before, kind) ==
  LET starts == { i \in 0..(Len(before) - 1) :
                    /\ before[i + 1] = Trigger(kind)
                    /\ \A j \in (i + 2)..Len(before) : before[j] \in IdChar }
  IN IF starts = {} THEN -1 ELSE SetMax(starts)

\* C26 as stated: after every change of the document the overlay's handler
\* has evaluated the caret's context for it once the change has been
\* handled; a change made by a key is handled when the key is up.
C26_ContextFollowsEveryChange == ~keyDown => oFresh

\* C28 as stated: the context functions of the hooks and the overlay report
\* a live context exactly when the text before the caret ends with the
\* trigger followed by zero or more identifier characters, and their query
\* is those characters.
C28_LiveContext ==
  /\ cHook.called =>
       /\ cHook.live = (LiveTriggerIndex(cBefore, cHook.kind) # -1)
       /\ cHook.live =>
            cHook.query =
              Slice(cBefore, LiveTriggerIndex(cBefore, cHook.kind) + 1)
  /\ oFresh =>
       /\ oOpen = (LiveTriggerIndex(cBefore, "mention") # -1)
       /\ oOpen =>
            oQuery = Slice(cBefore, LiveTriggerIndex(cBefore, "mention") + 1)

\* ------------------------------------------------------------------------
\* Pasting images: the paste listeners of useDragDrop and useCopyPaste
\* ------------------------------------------------------------------------
\* The most image items on one clipboard
MaxImages == 2

\* The paste events followed
Pastes == 1..2

PasteHooks == {"dragDrop", "copyPaste"}

\* The clipboard images: the i-th image item of paste event p
ImageIds == Pastes \X (1..MaxImages)

\* The paste listeners on editor.view.dom that look at image items, in the
\* order the effects registered them: useDragDrop is called with
\* enabled: enableImages, useCopyPaste with enabled: true, and an effect
\* registers its listener only when enabled
PasteListeners ==
  (IF imagesEnabled THEN <<"dragDrop">> ELSE <<>>) \o <<"copyPaste">>

Registered(l) == \E n \in 1..Len(PasteListeners) : PasteListeners[n] = l

\* editor.chain().focus().setImage({ src, alt }).run() for every image of
\* the set ids, once per listener of the set ls: the command exists only
\* with the image extension, which the editor configures under
\* enableImages; without it the call throws into the listener's catch
SetImage(nodes, ids, ls) ==
  [id \in ImageIds |->
     IF id \in ids /\ imagesEnabled THEN nodes[id] + Cardinality(ls)
     ELSE nodes[id]]

PasteInit ==
  /\ imagesEnabled \in BOOLEAN
  /\ hasUpload \in BOOLEAN
  /\ pasted = [p \in Pastes |-> 0]
  /\ runs = [r \in Pastes \X PasteHooks |-> 0]
  /\ imageNodes = [id \in ImageIds |-> 0]

AllRegistered == {l \in PasteHooks : Registered(l)}

\* A paste event whose clipboard holds n image items: the browser calls
\* every paste listener of the element in registration order.  Each handler
\* filters the image items, calls e.preventDefault() and loops over them;
\* without onImageUpload the loop has no await and inserts every image
\* before the handler returns, with onImageUpload the handler stops at the
\* await of its first upload
Paste(p, n) ==
  /\ pasted[p] = 0
  /\ p > 1 => pasted[p - 1] > 0
  /\ pasted' = [pasted EXCEPT ![p] = n]
  /\ IF hasUpload
     THEN /\ runs' = [r \in Pastes \X PasteHooks |->
                        IF r[1] = p /\ Registered(r[2]) THEN 1 ELSE runs[r]]
          /\ UNCHANGED imageNodes
     ELSE /\ imageNodes' =
               SetImage(imageNodes, {p} \X (1..n), AllRegistered)
          /\ UNCHANGED runs
  /\ UNCHANGED <<imagesEnabled, hasUpload>>
  /\ UNCHANGED <<coreVars, pluginVars, pctxVars, wrapVars>>

\* The item a listener's loop takes after item i of paste p: 0 at the end
NextItem(p, i) == IF i < pasted[p] THEN i + 1 ELSE 0

\* The upload a listener awaits resolves: it inserts the image with the
\* returned URL and starts the upload of its next item
UploadResolve(p, l) ==
  /\ runs[<<p, l>>] > 0
  /\ imageNodes' =
       SetImage(imageNodes, {<<p, runs[<<p, l>>]>>}, {l})
  /\ runs' = [runs EXCEPT ![<<p, l>>] = NextItem(p, @)]
  /\ UNCHANGED <<imagesEnabled, hasUpload, pasted>>
  /\ UNCHANGED <<coreVars, pluginVars, pctxVars, wrapVars>>

\* The upload a listener awaits rejects: the catch inside the loop logs the
\* error and the loop goes on with the next item
UploadReject(p, l) ==
  /\ runs[<<p, l>>] > 0
  /\ runs' = [runs EXCEPT ![<<p, l>>] = NextItem(p, @)]
  /\ UNCHANGED <<imagesEnabled, hasUpload, pasted, imageNodes>>
  /\ UNCHANGED <<coreVars, pluginVars, pctxVars, wrapVars>>

PasteNext ==
  \/ \E p \in Pastes, n \in 1..MaxImages : Paste(p, n)
  \/ \E p \in Pastes, l \in PasteHooks : UploadResolve(p, l)
  \/ \E p \in Pastes, l \in PasteHooks : UploadReject(p, l)

\* C33: with images enabled, no clipboard image is inserted more than once
\* by the paste listeners: every image of every paste event has at most one
\* image node in the document.
C33_ImageInsertedOnce ==
  imagesEnabled => \A id \in ImageIds : imageNodes[id] <= 1

\* No paste has happened
PasteIdle ==
  /\ imagesEnabled = TRUE
  /\ hasUpload = FALSE
  /\ pasted = [p \in Pastes |-> 0]
  /\ runs = [r \in Pastes \X PasteHooks |-> 0]
  /\ imageNodes = [id \in ImageIds |-> 0]

\* ------------------------------------------------------------------------
\* The plugin manager of createPluginManager
\* ------------------------------------------------------------------------
\* The most lifecycle events followed
MaxEvents == 6

PluginIds == {"p", "q"}

\* The enabled field of a plugin object
EnabledFields == {"true", "false", "undefined"}

\* Plugin objects: version tells two objects with one id apart
PluginObjects ==
  [id : PluginIds, enabled : EnabledFields, version : 1..2]

\* plugins.get(id) of an id that is not in the map
NoPlugin == [id |-> "", enabled |-> "undefined", version |-> 0]

\* The manager's state as one value
Manager == [plugins |-> plugins, enabledPlugins |-> enabledPlugins,
            eventLog |-> eventLog, warning |-> "none"]

Fire(m, event, id) ==
  [m EXCEPT !.eventLog = Append(@, [event |-> event, id |-> id])]

\* manager.enable without the test of enabledPlugins
MEnableNoCheck(m, id) ==
  IF m.plugins[id] = NoPlugin
  THEN [m EXCEPT !.warning = "not found"]
  ELSE Fire([m EXCEPT !.enabledPlugins = @ \cup {id}], "onEnable", id)

\* manager.enable(pluginId)
MEnable(m, id) ==
  IF m.plugins[id] = NoPlugin
  THEN [m EXCEPT !.warning = "not found"]
  ELSE IF id \in m.enabledPlugins
  THEN [m EXCEPT !.warning = "already enabled"]
  ELSE Fire([m EXCEPT !.enabledPlugins = @ \cup {id}], "onEnable", id)

\* manager.disable(pluginId)
MDisable(m, id) ==
  IF m.plugins[id] = NoPlugin
  THEN [m EXCEPT !.warning = "not found"]
  ELSE IF id \notin m.enabledPlugins
  THEN [m EXCEPT !.warning = "not enabled"]
  ELSE Fire([m EXCEPT !.enabledPlugins = @ \ {id}], "onDisable", id)

\* manager.register(plugin)
MRegister(m, plugin) ==
  IF m.plugins[plugin.id] # NoPlugin
  THEN [m EXCEPT !.warning = "already registered"]
  ELSE LET stored == Fire([m EXCEPT !.plugins[plugin.id] = plugin],
                          "onRegister", plugin.id)
       IN IF plugin.enabled # "false"
          THEN MEnable(stored, plugin.id)
          ELSE stored

\* manager.unregister without the call of manager.disable
MUnregisterNoDisable(m, id) ==
  IF m.plugins[id] = NoPlugin
  THEN [m EXCEPT !.warning = "not found"]
  ELSE Fire([m EXCEPT !.plugins[id] = NoPlugin], "onUnregister", id)

\* manager.unregister(pluginId)
MUnregister(m, id) ==
  IF m.plugins[id] = NoPlugin
  THEN [m EXCEPT !.warning = "not found"]
  ELSE LET disabled == MDisable(m, id)
       IN Fire([disabled EXCEPT !.plugins[id] = NoPlugin],
               "onUnregister", id)

\* manager.get(pluginId), NoPlugin for undefined
Get(id) == plugins[id]

\* manager.getAll()
GetAll == {plugins[id] : id \in {i \in PluginIds : plugins[i] # NoPlugin}}

\* manager.getEnabled()
GetEnabled == {plugin \in GetAll : plugin.id \in enabledPlugins}

\* manager.isEnabled(pluginId)
IsEnabled(id) == id \in enabledPlugins

PluginInit ==
  /\ plugins = [id \in PluginIds |-> NoPlugin]
  /\ enabledPlugins = {}
  /\ eventLog = <<>>
  /\ warning = "none"

\* A call of the manager leaves the manager in state m
Becomes(m) ==
  /\ Len(eventLog) + 2 <= MaxEvents
  /\ plugins' = m.plugins
  /\ enabledPlugins' = m.enabledPlugins
  /\ eventLog' = m.eventLog
  /\ warning' = m.warning
  /\ UNCHANGED <<coreVars, pasteVars, pctxVars, wrapVars>>

Register(plugin) == Becomes(MRegister(Manager, plugin))

Unregister(id) == Becomes(MUnregister(Manager, id))

Enable(id) == Becomes(MEnable(Manager, id))

Disable(id) == Becomes(MDisable(Manager, id))

PluginNext ==
  \/ \E plugin \in PluginObjects : Register(plugin)
  \/ \E id \in PluginIds : Unregister(id)
  \/ \E id \in PluginIds : Enable(id)
  \/ \E id \in PluginIds : Disable(id)

\* C35: after any sequence of register, unregister, enable and disable
\* calls every enabled plugin id is registered (isEnabled(id) implies
\* get(id) is defined) and getEnabled is a subset of getAll; and a register
\* call for an id that is already registered changes neither the stored
\* plugin nor the enabled set and fires no lifecycle event.
C35_EnabledAreRegistered ==
  /\ [](/\ \A id \in PluginIds : IsEnabled(id) => Get(id) # NoPlugin
        /\ GetEnabled \subseteq GetAll
        /\ Cardinality(GetEnabled) = Cardinality(enabledPlugins))
  /\ [][\A plugin \in PluginObjects :
          (Register(plugin) /\ Get(plugin.id) # NoPlugin)
            => UNCHANGED <<plugins, enabledPlugins, eventLog>>]_vars

\* A second plugin object was offered for a registered id, while one plugin
\* is enabled and another registered one is not
C35_Witness ==
  /\ warning = "already registered"
  /\ \E id \in PluginIds : IsEnabled(id)
  /\ \E id \in PluginIds : Get(id) # NoPlugin /\ ~IsEnabled(id)

\* The lifecycle events of one plugin id, oldest first
EventsOf(id) == SelectSeq(eventLog, LAMBDA e : e.id = id)

\* Where a plugin is in its life after an event, "broken" when the event
\* may not follow: a plugin is registered before it is enabled, enabled
\* before it is disabled, and disabled when it is unregistered
After(life, event) ==
  CASE life = "absent" /\ event = "onRegister" -> "disabled"
    [] life = "disabled" /\ event = "onEnable" -> "enabled"
    [] life = "enabled" /\ event = "onDisable" -> "disabled"
    [] life = "disabled" /\ event = "onUnregister" -> "absent"
    [] OTHER -> "broken"

RECURSIVE LifeAfter(_, _)
LifeAfter(life, events) ==
  IF events = <<>> THEN life
  ELSE LifeAfter(After(life, events[1].event), Tail(events))

\* Where the manager holds a plugin id
LifeOf(id) ==
  IF Get(id) = NoPlugin THEN "absent"
  ELSE IF IsEnabled(id) THEN "enabled" ELSE "disabled"

\* C36: per plugin id the lifecycle events are ordered: onRegister comes
\* before any onEnable, onEnable and onDisable alternate starting with
\* onEnable, an enabled plugin that is unregistered gets onDisable and then
\* onUnregister, and the events tell where the manager holds the plugin;
\* register leaves the plugin enabled unless its enabled field is exactly
\* false, and enabling an enabled or disabling a disabled plugin fires
\* nothing.
C36_LifecycleOrder ==
  /\ [](\A id \in PluginIds :
          LifeAfter("absent", EventsOf(id)) = LifeOf(id))
  /\ [][\A plugin \in PluginObjects :
          (Register(plugin) /\ Get(plugin.id) = NoPlugin)
            => (plugin.id \in enabledPlugins' <=> plugin.enabled # "false")]_vars
  /\ [][\A id \in PluginIds :
          ((Enable(id) /\ IsEnabled(id)) \/ (Disable(id) /\ ~IsEnabled(id)))
            => eventLog' = eventLog]_vars

\* A plugin that register had enabled was unregistered, and a plugin with
\* enabled: false is registered
C36_Witness ==
  /\ \E id \in PluginIds :
       /\ Len(EventsOf(id)) >= 4
       /\ EventsOf(id)[Len(EventsOf(id))].event = "onUnregister"
       /\ EventsOf(id)[Len(EventsOf(id)) - 1].event = "onDisable"
       /\ EventsOf(id)[Len(EventsOf(id)) - 2].event = "onEnable"
  /\ \E id \in PluginIds : Get(id).enabled = "false" /\ ~IsEnabled(id)

\* No plugin manager is in use
PluginIdle == PluginInit

\* ------------------------------------------------------------------------
\* The plugin context: on, off and emit over its event target
\* ------------------------------------------------------------------------
\* The most listeners on the event target
MaxListeners == 3

EventNames == {"x", "y"}

\* The handler functions plugins pass to on and off
Handlers == {"f", "g"}

\* The data of an emit
EventData == {1, 2}

\* A handler function as a callback of the event target
Plain(handler) == <<"handler", handler>>

\* The arrow function (e) => handler(e.detail) that on creates
Arrow(handler) == <<"arrow", handler>>

\* events.addEventListener(event, callback): the target keeps one entry per
\* event and callback, and every arrow function on creates is a new callback
AddEventListener(ls, event, callback) ==
  Append(ls, [event |-> event, callback |-> callback])

\* events.removeEventListener(event, callback): drops the entries of that
\* event whose callback is the function given
RemoveEventListener(ls, event, callback) ==
  SelectSeq(ls, LAMBDA l : ~(l.event = event /\ l.callback = callback))

\* The calls events.dispatchEvent makes for a CustomEvent of the event with
\* detail data: every listener of the event in registration order, and an
\* arrow function calls its handler with e.detail
RECURSIVE DispatchEvent(_, _, _)
DispatchEvent(ls, event, data) ==
  IF ls = <<>> THEN <<>>
  ELSE (IF ls[1].event = event
        THEN <<[handler |-> ls[1].callback[2], data |-> data]>>
        ELSE <<>>) \o DispatchEvent(Tail(ls), event, data)

\* How often on was called for the event and handler
OnCount(event, handler) ==
  Len(SelectSeq(listeners,
        LAMBDA l : l.event = event /\ l.callback = Arrow(handler)))

PctxInit ==
  /\ listeners = <<>>
  /\ offed = {}
  /\ invoked = <<>>

\* context.on(event, handler)
On(event, handler) ==
  /\ Len(listeners) < MaxListeners
  /\ listeners' = AddEventListener(listeners, event, Arrow(handler))
  /\ offed' = offed \ {<<event, handler>>}
  /\ invoked' = <<>>
  /\ UNCHANGED <<coreVars, pasteVars, pluginVars, wrapVars>>

\* context.off(event, handler) after an on of the pair
Off(event, handler) ==
  /\ OnCount(event, handler) > 0
  /\ listeners' = RemoveEventListener(listeners, event, Plain(handler))
  /\ offed' = offed \cup {<<event, handler>>}
  /\ invoked' = <<>>
  /\ UNCHANGED <<coreVars, pasteVars, pluginVars, wrapVars>>

\* context.emit(event, data)
Emit(event, data) ==
  /\ invoked' = DispatchEvent(listeners, event, data)
  /\ UNCHANGED <<listeners, offed>>
  /\ UNCHANGED <<coreVars, pasteVars, pluginVars, wrapVars>>

PctxNext ==
  \/ \E event \in EventNames, handler \in Handlers : On(event, handler)
  \/ \E event \in EventNames, handler \in Handlers : Off(event, handler)
  \/ \E event \in EventNames, data \in EventData : Emit(event, data)

\* The data a handler was called with, call by call
CallsOf(calls, handler) ==
  SelectSeq(calls, LAMBDA c : c.handler = handler)

\* C37: an emit of an event does not call a handler whose on for the event
\* was followed by off, and calls a handler with one on for the event and
\* no off exactly once, with the data of the emit.
C37_OffStopsHandler ==
  [][\A event \in EventNames, data \in EventData, handler \in Handlers :
       Emit(event, data) =>
         /\ <<event, handler>> \in offed
              => CallsOf(invoked', handler) = <<>>
         /\ (<<event, handler>> \notin offed /\ OnCount(event, handler) = 1)
              => CallsOf(invoked', handler) =
                   <<[handler |-> handler, data |-> data]>>]_vars

\* No plugin context is in use
PctxIdle == PctxInit

\* No caret is followed
CtxIdle == CtxInit

\* No commit is in progress
CommitIdle ==
  /\ editor = "ok"
  /\ hookKind = "mention"
  /\ committed = NoCommit

\* No hook is mounted
HookIdle ==
  /\ config = [hasFetch |-> FALSE, minCharacters |-> 0,
               showOnEmpty |-> FALSE, maxSuggestions |-> 0]
  /\ mentionState = InitialState
  /\ timers = <<>>
  /\ debounceRef = 0
  /\ abortControllerRef = 0
  /\ fetches = <<>>
  /\ mounted = TRUE
  /\ watch = FALSE
  /\ scenario = 0

\* ------------------------------------------------------------------------
\* The WInkEditor wrapper and WInkNoSSR
\* ------------------------------------------------------------------------
ImmediatelyRenderProps == {"undefined", "true", "false"}

HydrationStrategyProps == {"undefined", "none", "afterMount", "rAF"}

\* props.hydrationStrategy ?? "none"
Strategy(hs) == IF hs = "undefined" THEN "none" ELSE hs

\* props.immediatelyRender ?? typeof window !== "undefined"
Immediate(ir) == IF ir = "undefined" THEN wEnv = "client" ELSE ir = "true"

\* The callback the effect schedules under the props, "none" when it sets
\* shouldInit itself
Schedules(ir, hs) ==
  IF Immediate(ir) THEN "none"
  ELSE IF Strategy(hs) = "afterMount" THEN "timeout"
  ELSE IF Strategy(hs) = "rAF" THEN "rAF"
  ELSE "none"

\* What the wrapper returns: EditorImpl, or the loading placeholder
RendersImpl(client, init) == client /\ init

\* The first render, with both states false, on the server or on the client
WrapInit ==
  /\ wEnv \in {"server", "client"}
  /\ noSsr \in {"none", "fallback"}
  /\ immediatelyRender \in ImmediatelyRenderProps
  /\ hydrationStrategy \in HydrationStrategyProps
  /\ isClient = FALSE
  /\ shouldInit = FALSE
  /\ wPhase = IF noSsr = "none" THEN "rendered" ELSE "absent"
  /\ scheduled = "none"
  /\ implRendered = FALSE

\* The effect of WInkNoSSR: it renders its children, and the wrapper among
\* them renders for the first time.  Effects run on the client only
NoSsrEffect ==
  /\ wEnv = "client"
  /\ noSsr = "fallback"
  /\ noSsr' = "children"
  /\ wPhase' = "rendered"
  /\ implRendered' = (implRendered \/ RendersImpl(isClient, shouldInit))
  /\ UNCHANGED <<wEnv, immediatelyRender, hydrationStrategy, isClient,
                 shouldInit, scheduled>>
  /\ UNCHANGED <<coreVars, pasteVars, pluginVars, pctxVars>>

\* An effect cleanup that leaves the scheduled callback alone
EffectCleanupNoCancel(s) == s

\* The cleanup the effect returned: clearTimeout(t) or
\* cancelAnimationFrame(id); the branches that schedule nothing return none
EffectCleanup(s) == "none"

\* The body of the wrapper's effect and the render that follows it; left is
\* the callback still scheduled when the effect starts
RunEffect(ir, hs, left) ==
  /\ isClient' = TRUE
  /\ scheduled' = IF Schedules(ir, hs) = "none" THEN left ELSE Schedules(ir, hs)
  /\ shouldInit' = (shouldInit \/ Schedules(ir, hs) = "none")
  /\ implRendered' = (implRendered \/ RendersImpl(TRUE, shouldInit'))

\* The wrapper's effect runs after its first render
MountEffect ==
  /\ wEnv = "client"
  /\ wPhase = "rendered"
  /\ wPhase' = "mounted"
  /\ RunEffect(immediatelyRender, hydrationStrategy, scheduled)
  /\ UNCHANGED <<wEnv, noSsr, immediatelyRender, hydrationStrategy>>
  /\ UNCHANGED <<coreVars, pasteVars, pluginVars, pctxVars>>

\* The timeout or animation frame fires: setShouldInit(true) and a render
CallbackFires ==
  /\ scheduled # "none"
  /\ scheduled' = "none"
  /\ IF wPhase = "mounted"
     THEN /\ shouldInit' = TRUE
          /\ implRendered' = (implRendered \/ RendersImpl(isClient, TRUE))
     ELSE UNCHANGED <<shouldInit, implRendered>>
  /\ UNCHANGED <<wEnv, noSsr, immediatelyRender, hydrationStrategy, isClient,
                 wPhase>>
  /\ UNCHANGED <<coreVars, pasteVars, pluginVars, pctxVars>>

\* The parent renders the wrapper with other props: when immediate or
\* strategy changed, the cleanup of the last effect runs and the effect runs
\* again
PropsChange(ir, hs) ==
  /\ wPhase = "mounted"
  /\ <<ir, hs>> # <<immediatelyRender, hydrationStrategy>>
  /\ immediatelyRender' = ir
  /\ hydrationStrategy' = hs
  /\ IF <<Immediate(ir), Strategy(hs)>> #
          <<Immediate(immediatelyRender), Strategy(hydrationStrategy)>>
     THEN RunEffect(ir, hs, EffectCleanup(scheduled))
     ELSE UNCHANGED <<isClient, shouldInit, scheduled, implRendered>>
  /\ UNCHANGED <<wEnv, noSsr, wPhase>>
  /\ UNCHANGED <<coreVars, pasteVars, pluginVars, pctxVars>>

\* The wrapper unmounts: the cleanup of its effect runs
WrapUnmount ==
  /\ wPhase = "mounted"
  /\ wPhase' = "unmounted"
  /\ scheduled' = EffectCleanup(scheduled)
  /\ UNCHANGED <<wEnv, noSsr, immediatelyRender, hydrationStrategy, isClient,
                 shouldInit, implRendered>>
  /\ UNCHANGED <<coreVars, pasteVars, pluginVars, pctxVars>>

WrapNext ==
  \/ NoSsrEffect
  \/ MountEffect
  \/ CallbackFires
  \/ \E ir \in ImmediatelyRenderProps, hs \in HydrationStrategyProps :
       PropsChange(ir, hs)
  \/ WrapUnmount

\* C38: the wrapper renders the editor implementation neither on the server
\* nor on its first client render, whatever immediatelyRender and
\* hydrationStrategy are: EditorImpl is rendered only once the mount effect
\* has run; and an unmount cancels the callback the effect scheduled, so a
\* wrapper unmounted before the callback fired never renders EditorImpl.
C38_PlaceholderUntilMounted ==
  /\ [](/\ implRendered => (wEnv = "client" /\ wPhase \in {"mounted", "unmounted"})
        /\ wPhase \in {"absent", "rendered"} => ~RendersImpl(isClient, shouldInit)
        /\ wPhase = "unmounted" => scheduled = "none")
  /\ [][wPhase = "unmounted" => UNCHANGED <<shouldInit, implRendered>>]_vars

\* With immediatelyRender false and a deferring strategy the wrapper was
\* unmounted before the scheduled callback fired
C38_Witness ==
  /\ wPhase = "unmounted"
  /\ immediatelyRender = "false"
  /\ hydrationStrategy \in {"afterMount", "rAF"}
  /\ ~shouldInit
  /\ ~implRendered

\* No wrapper is rendered
WrapIdle ==
  /\ wEnv = "server"
  /\ noSsr = "none"
  /\ immediatelyRender = "undefined"
  /\ hydrationStrategy = "undefined"
  /\ isClient = FALSE
  /\ shouldInit = FALSE
  /\ wPhase = "rendered"
  /\ scheduled = "none"
  /\ implRendered = FALSE

\* Nothing but the mention and hashtag core is in use
ExtIdle == PasteIdle /\ PluginIdle /\ PctxIdle /\ WrapIdle

\* The mention and hashtag core is not in use
CoreIdle == ScanIdle /\ HookIdle /\ CommitIdle /\ DocIdle /\ CtxIdle

\* ------------------------------------------------------------------------
\* Specifications
\* ------------------------------------------------------------------------
\* The scan on its own, over every text of the bounds
SpecScanInit == ScanInit /\ HookIdle /\ CommitIdle /\ DocIdle /\ CtxIdle
  /\ ExtIdle

SpecScanNext == ScanNext

SpecScan == SpecScanInit /\ [][SpecScanNext]_vars

\* One suggestion hook under every call order of its operations
SpecHookInit ==
  /\ HookInit /\ watch = FALSE /\ CommitIdle /\ ScanIdle /\ DocIdle /\ CtxIdle
  /\ ExtIdle

SpecHookNext == HookNext

SpecHook == SpecHookInit /\ [][SpecHookNext]_vars

\* The editors a hook is given
EditorModes == {"null", "ok", "rejects"}

\* A hook of either kind with a fetch function and the default limits,
\* given any editor, driven by the host as the user types, waits, moves
\* through the list with the arrow keys, and commits or escapes
CommitInit ==
  /\ HookInit
  /\ watch = FALSE
  /\ config = [hasFetch |-> TRUE, minCharacters |-> 0,
               showOnEmpty |-> FALSE, maxSuggestions |-> 0]
  /\ editor \in EditorModes
  /\ hookKind \in Kinds
  /\ committed = NoCommit

SpecCommitInit == CommitInit /\ ScanIdle /\ DocIdle /\ CtxIdle
  /\ ExtIdle

SpecCommitNext ==
  \/ \E q \in Queries : ShowSuggestions(q)
  \/ \E t \in 1..MaxTimers : DebounceFire(t)
  \/ \E f \in 1..MaxFetches, n \in 0..MaxItems : FetchResolve(f, n)
  \/ KeyArrowUp
  \/ KeyArrowDown
  \/ KeyEscape
  \/ CommitNext

SpecCommit == SpecCommitInit /\ [][SpecCommitNext]_vars


\* The editor under every sequence of user edits
\* The life of one hook, from its first call to the unmount of its
\* component, the fetches in flight at a hide or an unmount being recorded
LifeInit ==
  /\ HookInit
  /\ config = [hasFetch |-> TRUE, minCharacters |-> 0,
               showOnEmpty |-> FALSE, maxSuggestions |-> 0]
  /\ watch = TRUE

SpecLifeInit == LifeInit /\ CommitIdle /\ ScanIdle /\ DocIdle /\ CtxIdle
  /\ ExtIdle

SpecLifeNext ==
  \/ \E q \in Queries : ShowSuggestions(q)
  \/ HideSuggestions
  \/ \E t \in 1..MaxTimers : DebounceFire(t)
  \/ \E f \in 1..MaxFetches, n \in 0..MaxItems : FetchResolve(f, n)
  \/ \E f \in 1..MaxFetches : FetchReject(f)
  \/ Unmount

SpecLife == SpecLifeInit /\ [][SpecLifeNext]_vars

\* The caret's context, over every text of the bounds
SpecCtxInit == CtxInit /\ ScanIdle /\ HookIdle /\ CommitIdle /\ DocIdle
  /\ ExtIdle

SpecCtxNext == CtxNext

SpecCtx == SpecCtxInit /\ [][SpecCtxNext]_vars

SpecDocInit == DocInit /\ ScanIdle /\ HookIdle /\ CommitIdle /\ CtxIdle
  /\ ExtIdle

SpecDocNext == DocNext

SpecDoc == SpecDocInit /\ [][SpecDocNext]_vars

\* An editor with both highlighters whose content prop changes
ParasInit ==
  /\ DocInit
  /\ enabled = AllKinds(TRUE)

SpecParasInit == ParasInit /\ ScanIdle /\ HookIdle /\ CommitIdle /\ CtxIdle
  /\ ExtIdle

SpecParasNext ==
  \/ \E content \in Contents, other \in OtherContents, spans \in BOOLEAN :
       ContentSync(content, other, spans)
  \/ \E content \in Contents, other \in OtherContents,
        spans \in BOOLEAN, emits \in BOOLEAN :
       SetContent(content, other, spans, emits)
  \/ \E pos \in 1..MaxParaLen : DeleteItem(pos)
  \/ FormatEdit
  \/ OnUpdateMentions
  \/ OnUpdateHashtags

SpecParas == SpecParasInit /\ [][SpecParasNext]_vars

\* Paste events with image items, under both settings of enableImages and
\* with and without onImageUpload
SpecPasteInit ==
  PasteInit /\ CoreIdle /\ PluginIdle /\ PctxIdle /\ WrapIdle

SpecPasteNext == PasteNext

SpecPaste == SpecPasteInit /\ [][SpecPasteNext]_vars

\* One plugin manager under every call order of its operations
SpecPluginInit ==
  PluginInit /\ CoreIdle /\ PasteIdle /\ PctxIdle /\ WrapIdle

SpecPluginNext == PluginNext

SpecPlugin == SpecPluginInit /\ [][SpecPluginNext]_vars

\* One plugin context under every call order of on, off and emit
SpecPctxInit ==
  PctxInit /\ CoreIdle /\ PasteIdle /\ PluginIdle /\ WrapIdle

SpecPctxNext == PctxNext

SpecPctx == SpecPctxInit /\ [][SpecPctxNext]_vars

\* The wrapper from its first render on, under every setting of its props
SpecWrapInit ==
  WrapInit /\ CoreIdle /\ PasteIdle /\ PluginIdle /\ PctxIdle

SpecWrapNext == WrapNext

SpecWrap == SpecWrapInit /\ [][SpecWrapNext]_vars

====
